---------------------------- MODULE Spec2Model ----------------------------
(***************************************************************************)
(* A model of the chakra / aura visualisation application:                 *)
(*   diagnostic_analyzer.py   PDF report -> parameter records -> energies   *)
(*   organs_visualization.py  organ status from the parameter records       *)
(*   utils.py, aura_photo.py  colour adjustment, aura buffer, photo overlay *)
(*   main.py, pages/chakra_energy_values.py   the Streamlit render passes   *)
(*   grv_camera.py            GRV camera, scan session, balance index      *)
(*   aura_photo.py, pages/grv_page.py   the aura photo capture passes      *)
(*                                                                         *)
(* Python floats are modelled as exact rationals <<numerator, denominator>> *)
(* (denominator > 0, lowest terms), in create_aura_only as integers on     *)
(* fixed scales.  Parameter names of the Russian report are written in     *)
(* English.                                                                *)
(***************************************************************************)
EXTENDS Integers, Sequences, FiniteSets, TLC

VARIABLES
    \* diagnostic_analyzer.py
    diagnostic_data,   \* the dict built by extract_diagnostic_data / given to map_to_chakras
    match,             \* the table row (regex match) processed last: {} or {row}
    row_raised,        \* TRUE when the processing of that row raised (and was caught)
    chakra_energy,     \* the dict returned by map_to_chakras: {} or {dict}
    \* organs_visualization.py
    organ,             \* the organ given to _determine_organ_status
    organ_status,      \* its result: {} or {status}
    \* aura_photo.py, create_aura_only
    aura_energy,       \* the energy_values argument
    width,             \* the width argument
    height,            \* the height argument
    fp_low,            \* whether float quotients that are exactly integral come out just below
    aura,              \* {} before the call returns, then {[status, buf]}
    \* utils.py, calculate_chakra_color
    base_color,        \* the base_color argument
    energy_percent,    \* the energy level in percent; the argument is energy_percent / 100
    pow_up,            \* whether energy ** 0.7 is read at the upper end of its interval
    adjusted_color,    \* {} before the call returns, then {the list returned}
    \* aura_photo.py, overlay_aura_on_photo
    heap,              \* the numpy arrays alive, by reference
    overlay_photo,     \* the photo argument (a reference)
    overlay_aura,      \* the aura argument (a reference)
    resize_raises,     \* whether cv2.resize raises when it is called
    given_photo,       \* {the contents of the photo at the call}
    overlay_result,    \* {} before the call returns, then {[returned, raised]}
    \* main.py and pages/chakra_energy_values.py: st.session_state
    energy_values,     \* session_state.energy_values, a dict of floats
    report_processed,  \* session_state.report_processed
    report_analysis,   \* session_state.report_analysis: {} for None, else {dict}
    apply_results,     \* session_state.apply_results: {} when absent or None, else {dict}
    chakra_data_source,\* session_state.chakra_data_source
    energy_profile,    \* session_state.energy_profile
    \* the widgets and the script run
    page,              \* the page shown: its script is the one that runs
    pc,                \* "idle" between passes, else the section of the script to run next
    passes,            \* the number of user events so far
    keyed_identity,    \* whether the Streamlit build identifies a widget by its key alone
    uploaded_file,     \* the state of the file_uploader: {} or {pdf}
    selected_profile,  \* the profile just picked in the selectbox of main.py: {} or {name}
    apply_profile,     \* the test profile whose apply button was just clicked: {} or {name}
    sliders,           \* the state of each slider: {} or {[value, default]}
    apply_button,      \* the apply button of the pass, with the results it holds: {} or {dict}
    analysis_results,  \* the dict analyze_report returned in this pass: {} or {dict}
    drawn,             \* the energy values drawn in this pass: {} or {dict}
    call               \* the function of the image code being called, or "none"

VARIABLES
    \* grv_camera.py: the GRVCamera object kept in st.session_state.grv_camera
    connected,         \* GRVCamera.connected
    camera_id,         \* GRVCamera.camera_id: {} for None, else {id}
    camera,            \* GRVCamera.camera: {} for None, else {[opened]}, a cv2.VideoCapture
    emulation_mode,    \* GRVCamera.emulation_mode
    camera_call,       \* the method of the camera that returned last, or "none"
    finger_images,     \* GRVCamera.finger_images: per finger {} for None, else {GRV-gram}
    processed_data,    \* GRVCamera.processed_data: per finger a dict
    session_file,      \* the session file written by save_session: {} or {contents}
    images_at_save,    \* the fingers that had an image when that file was written
    chakra_values_from_grv,  \* st.session_state.chakra_values_from_grv: {} or {dict}
    energy_model,      \* what process_all_fingers returned last: {} or {dict}
    \* grv_camera.py, calculate_balance_index
    chakra_values,     \* the chakra_values argument
    balance_index,     \* {} before the call returns, then {the index returned}
    \* aura_photo.py, capture_aura_photo, and the pages that call it: st.session_state
    photo_page,        \* the page shown, "main" or "grv_page"
    aura_photo_mode,   \* session_state.aura_photo_mode (absent counts as False)
    saved_energy_values, \* session_state.saved_energy_values: {} when absent, else {dict}
    camera_active,     \* session_state.camera_active (absent counts as False)
    photo_taken,       \* session_state.photo_taken (absent counts as False)
    result_image,      \* session_state.result_image: {} for None, else {image}
    camera_live,       \* the state of the camera_input widget: {} or {snapshot}
    rendered,          \* the button of capture_aura_photo rendered in the last pass
    activation_values, \* the energy_values given in the pass that activated the camera
    \* grv_camera.py, display_grv_interface: the session uploader
    session_loaded,    \* session_state.session_loaded: {} when absent, else {flag}
    uploaded_session,  \* the file in the session uploader: {} or {file}
    grv_pc,            \* where the pass of display_grv_interface stands
    session_message,   \* what the session block of the last pass showed
    load_reruns        \* the number of st.rerun() calls of line 1188 so far

vars_an == <<diagnostic_data, match, row_raised, chakra_energy>>
vars_organ == <<organ, organ_status>>

vars_aura == <<aura_energy, width, height, fp_low, aura>>
vars_color == <<base_color, energy_percent, pow_up, adjusted_color>>
vars_overlay == <<heap, overlay_photo, overlay_aura, resize_raises, given_photo, overlay_result>>
vars_image == <<call, vars_aura, vars_color, vars_overlay>>

session == <<energy_values, report_processed, report_analysis, apply_results,
             chakra_data_source, energy_profile>>
vars_ui == <<session, page, pc, passes, keyed_identity, uploaded_file, selected_profile,
             apply_profile, sliders, apply_button, analysis_results, drawn>>

vars_camera == <<connected, camera_id, camera, emulation_mode, camera_call>>
vars_grv == <<vars_camera, finger_images, processed_data, session_file, images_at_save,
              chakra_values_from_grv, energy_model>>
vars_balance == <<chakra_values, balance_index>>
vars_photo == <<photo_page, aura_photo_mode, saved_energy_values, camera_active, photo_taken,
                result_image, camera_live, rendered, activation_values>>
vars_load == <<session_loaded, uploaded_session, grv_pc, session_message, load_reruns>>
vars_rest == <<vars_grv, vars_balance, vars_photo, vars_load>>

vars == <<vars_an, vars_organ, vars_image, vars_ui, vars_rest>>

---------------------------------------------------------------------------
(* Rational arithmetic standing for Python float arithmetic.               *)

\* An optional value (None or a value) is the empty set or a singleton.
None == {}
Some(v) == {v}
The(o) == CHOOSE v \in o : TRUE

Abs(n) == IF n < 0 THEN -n ELSE n

RECURSIVE GCD(_, _)
GCD(a, b) == IF b = 0 THEN a ELSE GCD(b, a % b)

Rat(n, d) ==
    LET g == GCD(Abs(n), Abs(d))
        s == IF d < 0 THEN -1 ELSE 1
    IN  <<(s * n) \div g, (s * d) \div g>>

RInt(n) == <<n, 1>>
RAdd(a, b) == Rat(a[1] * b[2] + b[1] * a[2], a[2] * b[2])
RSub(a, b) == Rat(a[1] * b[2] - b[1] * a[2], a[2] * b[2])
RMul(a, b) == Rat(a[1] * b[1], a[2] * b[2])
RDiv(a, b) == Rat(a[1] * b[2], a[2] * b[1])
RLe(a, b) == a[1] * b[2] <= b[1] * a[2]
RLt(a, b) == a[1] * b[2] < b[1] * a[2]
RAbs(a) == <<Abs(a[1]), a[2]>>
RMin(a, b) == IF RLe(a, b) THEN a ELSE b
RMax(a, b) == IF RLe(a, b) THEN b ELSE a
\* int(x): truncation towards zero
RTrunc(a) == IF a[1] >= 0 THEN a[1] \div a[2] ELSE -((-a[1]) \div a[2])

---------------------------------------------------------------------------
(* diagnostic_analyzer.py                                                  *)

Chakras == {"Root", "Sacral", "Solar Plexus", "Heart", "Throat", "Third Eye", "Crown"}

\* parameter -> set of <<chakra, weight in tenths>>
parameter_to_chakra_mapping ==
    [ BloodViscosity               |-> {<<"Root", 5>>, <<"Sacral", 3>>},
      TotalCholesterol             |-> {<<"Root", 4>>, <<"Sacral", 3>>},
      Lipids                       |-> {<<"Root", 5>>, <<"Solar Plexus", 2>>},
      VascularResistance           |-> {<<"Heart", 4>>, <<"Root", 2>>, <<"Solar Plexus", 2>>},
      VesselElasticity             |-> {<<"Heart", 5>>, <<"Throat", 2>>},
      MyocardialBloodDemand        |-> {<<"Heart", 6>>, <<"Solar Plexus", 2>>},
      MyocardialPerfusionVolume    |-> {<<"Heart", 7>>},
      MyocardialOxygenConsumption  |-> {<<"Heart", 5>>, <<"Throat", 3>>},
      StrokeVolume                 |-> {<<"Heart", 6>>, <<"Root", 2>>},
      LeftVentricleEjectionResist  |-> {<<"Heart", 7>>},
      CoronaryArteryElasticity     |-> {<<"Heart", 5>>, <<"Root", 2>>},
      LeftVentricleEjectionForce   |-> {<<"Heart", 5>>, <<"Solar Plexus", 3>>},
      CoronaryPerfusionPressure    |-> {<<"Heart", 5>>, <<"Crown", 2>>},
      CerebralVesselElasticity     |-> {<<"Third Eye", 5>>, <<"Crown", 3>>},
      BrainBloodSupply             |-> {<<"Third Eye", 4>>, <<"Crown", 4>>} ]

MappedParameters == DOMAIN parameter_to_chakra_mapping

\* data.get(key, default)
Get(data, key, default) == IF key \in DOMAIN data THEN data[key] ELSE default

Digits == {"0", "1", "2", "3", "4", "5", "6", "7", "8", "9"}

DigitValue(c) ==
    CASE c = "0" -> 0 [] c = "1" -> 1 [] c = "2" -> 2 [] c = "3" -> 3 [] c = "4" -> 4
      [] c = "5" -> 5 [] c = "6" -> 6 [] c = "7" -> 7 [] c = "8" -> 8 [] c = "9" -> 9

\* s.replace(',', '.') on a string given as a sequence of characters
ReplaceComma(s) == [i \in 1..Len(s) |-> IF s[i] = "," THEN "." ELSE s[i]]

RECURSIVE DigitsValue(_)
DigitsValue(s) ==
    IF Len(s) = 0 THEN 0
    ELSE 10 * DigitsValue(SubSeq(s, 1, Len(s) - 1)) + DigitValue(s[Len(s)])

RECURSIVE Pow10(_)
Pow10(n) == IF n = 0 THEN 1 ELSE 10 * Pow10(n - 1)

ValueError == <<>>

\* float(s) for a string over digits and '.': the value, or ValueError
Float(s) ==
    LET dots == {i \in 1..Len(s) : s[i] = "."}
        ndig == Cardinality({i \in 1..Len(s) : s[i] \in Digits})
    IN  IF Cardinality(dots) > 1 \/ ndig = 0 \/ ndig + Cardinality(dots) # Len(s)
        THEN ValueError
        ELSE IF dots = {} THEN RInt(DigitsValue(s))
        ELSE LET p == CHOOSE i \in dots : TRUE
                 whole == SubSeq(s, 1, p - 1)
                 frac == SubSeq(s, p + 1, Len(s))
             IN  Rat(DigitsValue(whole) * Pow10(Len(frac)) + DigitsValue(frac),
                     Pow10(Len(frac)))

\* dict[key] = value
Put(dict, key, value) ==
    [k \in DOMAIN dict \cup {key} |-> IF k = key THEN value ELSE dict[k]]

\* the status of a result against its normal range (lines 156-159)
StatusOfExclusive(min_norm, result_value, max_norm) ==
    IF RLt(min_norm, result_value) /\ RLt(result_value, max_norm)
    THEN "normal" ELSE "abnormal"
StatusOf(min_norm, result_value, max_norm) ==
    IF RLe(min_norm, result_value) /\ RLe(result_value, max_norm)
    THEN "normal" ELSE "abnormal"

\* One iteration of the loop over the table rows: [data |-> the dict after
\* the row, raised |-> whether the try block raised].
ExtractRow(dd, m) ==
    LET result_value == Float(ReplaceComma(m.result))
        min_norm == Float(ReplaceComma(m.range_min))
        max_norm == Float(ReplaceComma(m.range_max))
    IN  IF result_value = ValueError \/ min_norm = ValueError \/ max_norm = ValueError
        THEN [data |-> dd, raised |-> TRUE]
        ELSE
        LET status == StatusOf(min_norm, result_value, max_norm)
            stored == ("normal_range" :> <<min_norm, max_norm>>) @@
                      ("result" :> result_value) @@ ("status" :> status)
            norm_range == RSub(max_norm, min_norm)
        IN  IF norm_range[1] = 0
            THEN \* every branch divides by norm_range: ZeroDivisionError
                 [data |-> Put(dd, m.parameter, stored), raised |-> TRUE]
            ELSE IF RLt(result_value, min_norm)
            THEN LET deviation == RMul(RDiv(RSub(min_norm, result_value), norm_range), RInt(100))
                 IN  [data |-> Put(dd, m.parameter,
                                   ("deviation" :> RSub(RInt(0), deviation)) @@ stored),
                      raised |-> FALSE]
            ELSE IF RLt(max_norm, result_value)
            THEN LET deviation == RMul(RDiv(RSub(result_value, max_norm), norm_range), RInt(100))
                 IN  [data |-> Put(dd, m.parameter, ("deviation" :> deviation) @@ stored),
                      raised |-> FALSE]
            ELSE LET position == RMul(RDiv(RSub(result_value, min_norm), norm_range), RInt(100))
                 IN  [data |-> Put(dd, m.parameter,
                                   ("deviation" :> RInt(0)) @@ ("position" :> position) @@ stored),
                      raised |-> FALSE]

RECURSIVE RSum(_, _)
\* the sum of f[x] over the finite set S
RSum(f, S) ==
    IF S = {} THEN RInt(0)
    ELSE LET x == CHOOSE y \in S : TRUE IN RAdd(f[x], RSum(f, S \ {x}))

\* energy_value of one parameter record (lines 232-258)
EnergyValue(data) ==
    IF Get(data, "status", "unknown") = "normal"
    THEN LET position == Get(data, "position", RInt(50))
             energy_factor == RSub(RInt(1), RDiv(RAbs(RSub(position, RInt(50))), RInt(50)))
         IN  RAdd(RInt(70), RMul(energy_factor, RInt(30)))
    ELSE LET deviation == RAbs(Get(data, "deviation", RInt(0)))
             capped_deviation == RMin(deviation, RInt(100))
         IN  RMax(RInt(0), RSub(RInt(100), capped_deviation))

\* the pairs <<param, <<chakra, weight>>>> that touch a chakra
Influences(dd, chakra) ==
    {pw \in UNION {{<<p, cw>> : cw \in parameter_to_chakra_mapping[p]} :
                      p \in DOMAIN dd \cap MappedParameters} : pw[2][1] = chakra}

\* the final clamp of one chakra (lines 279-284)
ClampEnergyNone(influence_count, energy) == energy
ClampEnergy(influence_count, energy) ==
    IF RLt(RInt(0), influence_count)
    THEN RMax(RInt(0), RMin(RInt(100), energy))
    ELSE energy

map_to_chakras(dd) ==
    [chakra \in Chakras |->
        LET infl == Influences(dd, chakra)
            energy_reduction == [pw \in infl |->
                RMul(RSub(RInt(100), EnergyValue(dd[pw[1]])), Rat(pw[2][2], 10))]
            weight == [pw \in infl |-> Rat(pw[2][2], 10)]
        IN  ClampEnergy(RSum(weight, infl),
                        RSub(RInt(100), RSum(energy_reduction, infl)))]

EmptyDict == [k \in {} |-> 0]

\* Number strings of the report table, as sequences of characters.
Tokens == { <<"1">>, <<"3">>, <<"2", ",", "5">>, <<"1", ".", "2", ".", "3">> }

\* The rows the regex can match: every combination of number strings for one
\* parameter, and a second parameter with the range "1 - 3".
TableRows ==
    [parameter : {"Lipids"}, range_min : Tokens, range_max : Tokens, result : Tokens]
    \cup [parameter : {"StrokeVolume"}, range_min : {<<"1">>}, range_max : {<<"3">>},
          result : Tokens]

\* grv_camera.py, HandType and FingerType (lines 17-28).  FingerType is cut to its first
\* MaxFingerTypes members.
MaxFingerTypes == 1
HandType == {"LEFT", "RIGHT"}
FingerTypeOrder == <<"THUMB", "INDEX", "MIDDLE", "RING", "PINKY">>
FingerType == {FingerTypeOrder[i] : i \in 1..(IF MaxFingerTypes < 5 THEN MaxFingerTypes ELSE 5)}
Fingers == HandType \X FingerType

\* The parts of the program a specification leaves alone stay in these states.
IdleOrgan == organ = "Heart" /\ organ_status = None
IdleAn ==
    /\ diagnostic_data = EmptyDict
    /\ match = None
    /\ row_raised = FALSE
    /\ chakra_energy = None
IdleAura ==
    /\ aura_energy = [c \in Chakras |-> 100]
    /\ width = 1
    /\ height = 1
    /\ fp_low = FALSE
    /\ aura = None
IdleColor ==
    /\ base_color = <<0, 0, 0>>
    /\ energy_percent = 0
    /\ pow_up = FALSE
    /\ adjusted_color = None
IdleOverlay ==
    /\ heap = <<>>
    /\ overlay_photo = 0
    /\ overlay_aura = 0
    /\ resize_raises = FALSE
    /\ given_photo = None
    /\ overlay_result = None
IdleImage == call = "none" /\ IdleAura /\ IdleColor /\ IdleOverlay
\* no widget has a state: the session starts, or another page is opened
NoWidgetState ==
    /\ uploaded_file = None
    /\ selected_profile = None
    /\ apply_profile = None
    /\ sliders = [c \in Chakras |-> None]
    /\ apply_button = None
IdleUI ==
    /\ page = "main"
    /\ pc = "idle"
    /\ passes = 0
    /\ keyed_identity = TRUE
    /\ energy_values = [c \in Chakras |-> RInt(100)]
    /\ report_processed = FALSE
    /\ report_analysis = None
    /\ apply_results = None
    /\ chakra_data_source = "default"
    /\ energy_profile = "custom"
    /\ NoWidgetState
    /\ analysis_results = None
    /\ drawn = None

\* GRVCamera.__init__ (lines 36-66)
NoFingerImages == [f \in Fingers |-> None]
NoProcessedData == [f \in Fingers |-> EmptyDict]
NewCamera ==
    /\ connected = FALSE
    /\ camera_id = None
    /\ camera = None
    /\ emulation_mode = FALSE
    /\ camera_call = "none"
IdleGRV ==
    /\ NewCamera
    /\ finger_images = NoFingerImages
    /\ processed_data = NoProcessedData
    /\ session_file = None
    /\ images_at_save = {}
    /\ chakra_values_from_grv = None
    /\ energy_model = None
IdleBalance ==
    /\ chakra_values = [c \in Chakras |-> 0]
    /\ balance_index = None
IdlePhoto ==
    /\ photo_page = "main"
    /\ aura_photo_mode = FALSE
    /\ saved_energy_values = None
    /\ camera_active = FALSE
    /\ photo_taken = FALSE
    /\ result_image = None
    /\ camera_live = None
    /\ rendered = "none"
    /\ activation_values = None
IdleLoad ==
    /\ session_loaded = None
    /\ uploaded_session = None
    /\ grv_pc = "idle"
    /\ session_message = "none"
    /\ load_reruns = 0
IdleRest == IdleGRV /\ IdleBalance /\ IdlePhoto /\ IdleLoad

\* for match in matches: one row of the table is processed (lines 136-176)
ProcessRow ==
    \E m \in TableRows :
        /\ match' = Some(m)
        /\ diagnostic_data' = ExtractRow(diagnostic_data, m).data
        /\ row_raised' = ExtractRow(diagnostic_data, m).raised
        /\ UNCHANGED <<chakra_energy, vars_organ, vars_image, vars_ui, vars_rest>>

InitExtract ==
    /\ diagnostic_data = EmptyDict
    /\ match = None
    /\ row_raised = FALSE
    /\ chakra_energy = None
    /\ IdleOrgan
    /\ IdleImage
    /\ IdleUI
    /\ IdleRest

NextExtract == ProcessRow

SpecExtract == InitExtract /\ [][NextExtract]_vars

\* Inputs of map_to_chakras: at most MaxParams parameters, each with a record.
MaxParams == 2

ParamRecords ==
    { ("status" :> "normal") @@ ("deviation" :> RInt(0)) @@ ("position" :> RInt(pos))
        : pos \in {0, 20, 50, 100} }
    \cup { ("status" :> "abnormal") @@ ("deviation" :> RInt(dev)) : dev \in {-250, 30} }

InputParameters == MappedParameters \cup {"Glucose"}

MapInputs ==
    UNION { [ps -> ParamRecords] :
            ps \in {q \in SUBSET InputParameters : Cardinality(q) <= MaxParams} }

MapToChakras ==
    /\ chakra_energy = None
    /\ chakra_energy' = Some(map_to_chakras(diagnostic_data))
    /\ UNCHANGED <<diagnostic_data, match, row_raised, vars_organ, vars_image, vars_ui, vars_rest>>

InitMap ==
    /\ diagnostic_data \in MapInputs
    /\ match = None
    /\ row_raised = FALSE
    /\ chakra_energy = None
    /\ IdleOrgan
    /\ IdleImage
    /\ IdleUI
    /\ IdleRest

NextMap == MapToChakras

SpecMap == InitMap /\ [][NextMap]_vars

---------------------------------------------------------------------------
(* Claims about diagnostic_analyzer.py                                     *)

\* C1: map_to_chakras returns exactly the seven chakra keys, every value
\* lies in [0,100], and a chakra touched by no parameter stays at 100.
C1_EnergiesInRange ==
    \A ce \in chakra_energy :
        /\ DOMAIN ce = Chakras
        /\ \A c \in Chakras :
              /\ RLe(RInt(0), ce[c]) /\ RLe(ce[c], RInt(100))
              /\ (\A p \in DOMAIN diagnostic_data \cap MappedParameters :
                     \A cw \in parameter_to_chakra_mapping[p] : cw[1] # c)
                 => ce[c] = RInt(100)

\* two abnormal Heart parameters push Heart below 0 before the clamp, and
\* Crown is touched by nothing
C1_Witness ==
    \E ce \in chakra_energy :
        /\ DOMAIN diagnostic_data = {"MyocardialPerfusionVolume", "LeftVentricleEjectionResist"}
        /\ \A p \in DOMAIN diagnostic_data : diagnostic_data[p].status = "abnormal"
        /\ ce["Heart"] = RInt(0)
        /\ ce["Crown"] = RInt(100)

RowMin(m) == Float(ReplaceComma(m.range_min))
RowMax(m) == Float(ReplaceComma(m.range_max))
RowResult(m) == Float(ReplaceComma(m.result))
RowParsed(m) == RowMin(m) # ValueError /\ RowMax(m) # ValueError /\ RowResult(m) # ValueError

\* C2: for every table row with normal range [min, max] and result r, the
\* recorded status is 'normal' exactly when min <= r <= max, else 'abnormal'.
C2_StatusIffInRange ==
    \A m \in match :
        RowParsed(m) =>
            /\ m.parameter \in DOMAIN diagnostic_data
            /\ diagnostic_data[m.parameter].status \in {"normal", "abnormal"}
            /\ diagnostic_data[m.parameter].status = "normal"
                 <=> (RLe(RowMin(m), RowResult(m)) /\ RLe(RowResult(m), RowMax(m)))

\* a row whose result equals the lower bound of a proper range is 'normal'
C2_Witness ==
    \E m \in match :
        /\ RowParsed(m)
        /\ RowResult(m) = RowMin(m)
        /\ RLt(RowMin(m), RowMax(m))
        /\ diagnostic_data[m.parameter].status = "normal"

\* C9: every stored record holds result, normal_range, status and deviation,
\* and a row whose processing raised has stored nothing.
C9_RecordsComplete ==
    /\ \A p \in DOMAIN diagnostic_data :
          {"result", "normal_range", "status", "deviation"} \subseteq DOMAIN diagnostic_data[p]
    /\ \A m \in match :
          (row_raised /\ RowParsed(m)) =>
             ~ ( /\ m.parameter \in DOMAIN diagnostic_data
                 /\ diagnostic_data[m.parameter].normal_range = <<RowMin(m), RowMax(m)>>
                 /\ diagnostic_data[m.parameter].result = RowResult(m) )

---------------------------------------------------------------------------
(* organs_visualization.py                                                 *)

organ_params_mapping ==
    [ Brain     |-> <<"BrainBloodSupply", "CerebralVesselElasticity">>,
      Heart     |-> <<"LeftVentricleEjectionForce", "StrokeVolume", "MyocardialPerfusionVolume",
                      "MyocardialBloodDemand", "CoronaryArteryElasticity",
                      "VascularResistance", "CoronaryPerfusionPressure">>,
      Lungs     |-> <<"MyocardialOxygenConsumption">>,
      Liver     |-> <<"TotalCholesterol", "Lipids">>,
      Stomach   |-> <<"BloodViscosity">>,
      Pancreas  |-> <<"Lipids">>,
      Intestine |-> <<"BloodViscosity", "TotalCholesterol">>,
      Kidneys   |-> <<"VascularResistance", "VesselElasticity">>,
      Bladder   |-> <<"BloodViscosity">>,
      Thyroid   |-> <<"VesselElasticity">>,
      Spleen    |-> <<"BloodViscosity">>,
      Adrenals  |-> <<"LeftVentricleEjectionResist">> ]

\* the counters after the loop over the first n parameters (lines 146-163)
RECURSIVE CountParams(_, _, _)
CountParams(params, dd, n) ==
    IF n = 0
    THEN [normal |-> 0, abnormal |-> 0, positive_deviations |-> 0,
          negative_deviations |-> 0, total_params |-> 0]
    ELSE LET c == CountParams(params, dd, n - 1)
             param == params[n]
         IN  IF param \notin DOMAIN dd THEN c
             ELSE LET status == Get(dd[param], "status", "unknown")
                      t == [c EXCEPT !.total_params = @ + 1]
                  IN  IF status = "normal" THEN [t EXCEPT !.normal = @ + 1]
                      ELSE IF status = "abnormal"
                      THEN LET deviation == Get(dd[param], "deviation", RInt(0))
                               a == [t EXCEPT !.abnormal = @ + 1]
                           IN  IF RLt(RInt(0), deviation)
                               THEN [a EXCEPT !.positive_deviations = @ + 1]
                               ELSE [a EXCEPT !.negative_deviations = @ + 1]
                      ELSE t

\* the status from the counters (lines 165-178); percentages compared exactly
StatusFromCountsStrict(c) ==
    IF c.total_params = 0 THEN "no_data"
    ELSE IF c.normal * 100 > 80 * c.total_params THEN "healthy"
    ELSE IF c.normal * 100 <= 20 * c.total_params THEN "damaged"
    ELSE IF c.positive_deviations > c.negative_deviations THEN "inflamed"
    ELSE "weakened"
StatusFromCounts(c) ==
    IF c.total_params = 0 THEN "no_data"
    ELSE IF c.normal * 100 >= 80 * c.total_params THEN "healthy"
    ELSE IF c.normal * 100 <= 20 * c.total_params THEN "damaged"
    ELSE IF c.positive_deviations > c.negative_deviations THEN "inflamed"
    ELSE "weakened"

_determine_organ_status(o, dd) ==
    IF o \notin DOMAIN organ_params_mapping \/ Len(organ_params_mapping[o]) = 0
    THEN "no_data"
    ELSE StatusFromCounts(CountParams(organ_params_mapping[o], dd, Len(organ_params_mapping[o])))

\* The organs drawn (organs_positions), and one name without a mapping.
Organs == DOMAIN organ_params_mapping \cup {"Appendix"}

OrganParams(o) ==
    IF o \in DOMAIN organ_params_mapping
    THEN {organ_params_mapping[o][i] : i \in 1..Len(organ_params_mapping[o])}
    ELSE {}

\* Records as extract_diagnostic_data leaves them: complete ones, and the
\* incomplete one of a zero-width range.
OrganRecords ==
    { ("status" :> "normal") @@ ("deviation" :> RInt(0)) @@ ("position" :> RInt(50)),
      ("status" :> "abnormal") @@ ("deviation" :> RInt(30)),
      ("status" :> "abnormal") @@ ("deviation" :> RInt(-250)),
      ("status" :> "abnormal") @@ ("result" :> RInt(1)) }

OrganInputs(o) == UNION { [ps -> OrganRecords] : ps \in SUBSET (OrganParams(o) \cup {"Glucose"}) }

DetermineOrganStatus ==
    /\ organ_status = None
    /\ organ_status' = Some(_determine_organ_status(organ, diagnostic_data))
    /\ UNCHANGED <<vars_an, organ, vars_image, vars_ui, vars_rest>>

InitOrgans ==
    /\ organ \in Organs
    /\ diagnostic_data \in OrganInputs(organ)
    /\ organ_status = None
    /\ match = None
    /\ row_raised = FALSE
    /\ chakra_energy = None
    /\ IdleImage
    /\ IdleUI
    /\ IdleRest

NextOrgans == DetermineOrganStatus

SpecOrgans == InitOrgans /\ [][NextOrgans]_vars

\* the organ's mapped parameters present in diagnostic_data, by status
Present(o, dd) == OrganParams(o) \cap DOMAIN dd
NormalPresent(o, dd) == {p \in Present(o, dd) : dd[p].status = "normal"}
PositivePresent(o, dd) ==
    {p \in Present(o, dd) : dd[p].status = "abnormal" /\ "deviation" \in DOMAIN dd[p]
                                /\ dd[p]["deviation"][1] > 0}
OtherAbnormalPresent(o, dd) ==
    {p \in Present(o, dd) : dd[p].status = "abnormal"} \ PositivePresent(o, dd)

---------------------------------------------------------------------------
(* aura_photo.py: create_aura_only                                         *)

chakra_colors ==
    [c \in Chakras |->
        CASE c = "Root" -> <<255, 0, 0>>
          [] c = "Sacral" -> <<255, 128, 0>>
          [] c = "Solar Plexus" -> <<255, 255, 0>>
          [] c = "Heart" -> <<0, 255, 0>>
          [] c = "Throat" -> <<0, 191, 255>>
          [] c = "Third Eye" -> <<0, 0, 255>>
          [] c = "Crown" -> <<128, 0, 128>>]

\* chakra_positions, in hundredths
chakra_positions ==
    [c \in Chakras |->
        CASE c = "Root" -> 85 [] c = "Sacral" -> 75 [] c = "Solar Plexus" -> 65
          [] c = "Heart" -> 50 [] c = "Throat" -> 35 [] c = "Third Eye" -> 20
          [] c = "Crown" -> 5]

Min2(a, b) == IF a <= b THEN a ELSE b
Max2(a, b) == IF a >= b THEN a ELSE b

\* The chakras in the order of the chakra_positions dict; the loops over the
\* chakras are unrolled over this order.
ChakraOrder == <<"Root", "Sacral", "Solar Plexus", "Heart", "Throat", "Third Eye", "Crown">>
Map7(f) == <<f[1], f[2], f[3], f[4], f[5], f[6], f[7]>>
Sum7(t) == t[1] + t[2] + t[3] + t[4] + t[5] + t[6] + t[7]
Max7(t) == Max2(t[1], Max2(t[2], Max2(t[3], Max2(t[4], Max2(t[5], Max2(t[6], t[7]))))))
GCD7(t) == GCD(t[1], GCD(t[2], GCD(t[3], GCD(t[4], GCD(t[5], GCD(t[6], t[7]))))))
LCM(a, b) == (a \div GCD(a, b)) * b
LCM7(t) == LCM(t[1], LCM(t[2], LCM(t[3], LCM(t[4], LCM(t[5], LCM(t[6], t[7]))))))

(* create_aura_only works on floats.  Its quantities are kept here as     *)
(* exact integers on fixed scales, so that every comparison is exact:     *)
(*   base_radius10    = 10 * base_radius                                  *)
(*   radius_factor    = 1000 * (0.3 + 0.7 * energy / 100)                 *)
(*                      (chakra_radius = base_radius * that)              *)
(*   energy_factor    = 100 * energy_factor                               *)
(*   body_width20h    = 20 * height * body_width                          *)
(*   body_dist20h     = 20 * height * body_dist                           *)

center_x(w) == w \div 2
\* int(height * 0.45)
center_y(h) == (45 * h) \div 100

\* base_radius after the cap of lines 67-77
base_radius10(w, h) ==
    LET edge_distance_x == 9 * Min2(center_x(w), w - center_x(w))
        edge_distance_y == 9 * Min2(center_y(h), h - center_y(h))
    IN  Min2(Min2(edge_distance_x, edge_distance_y), 4 * Min2(w, h))

\* chakra_radius[chakra] = base_radius * (0.3 + 0.7 * energy / 100) (line 81)
radius_factor(ev, c) == 300 + 7 * ev[c]

\* energy_values_float[chakra] / 100.0 (line 125); the variant takes the
\* factor of the radius instead, which is 0.3 for an energy of 0
energy_factor_of_radius(ev, c) == 30 + (7 * ev[c]) \div 10
energy_factor(ev, c) == ev[c]

\* body_width at row y (lines 88-100): rel_y = y / height against
\* 0.2, 0.4, 0.6, 0.8
body_width20h(y, h) ==
    IF 5 * y < h THEN 3 * h
    ELSE IF 5 * y < 2 * h THEN 2 * h + 10 * y
    ELSE IF 5 * y < 3 * h THEN 6 * h
    ELSE IF 5 * y < 4 * h THEN 18 * h - 20 * y
    ELSE 3 * h

\* body_dist in pixels (lines 103-111): max(0, |dx| - body_width) * width
body_dist20h(x, y, w, h) ==
    Max2(0, 20 * h * Abs(x - center_x(w)) - body_width20h(y, h) * w)

\* energy_factor > 0 and body_dist <= max_dist_for_chakra (lines 128, 133)
InReach(ev, c, x, y, w, h) ==
    /\ energy_factor(ev, c) > 0
    /\ 500 * body_dist20h(x, y, w, h) <= h * base_radius10(w, h) * radius_factor(ev, c)

\* angle_weight * 0.7 + horiz_weight * 0.3 (lines 135-146), as the numerator
\* over 10 * height * base_radius10 * radius_factor
WeightNumerator(ev, c, x, y, w, h) ==
    LET chakra_y == (chakra_positions[c] * h) \div 100
        angle_weight == Max2(0, h - 2 * Abs(y - chakra_y))     \* times height
    IN  base_radius10(w, h) * radius_factor(ev, c) * (7 * angle_weight + 3 * h)
          - 1500 * body_dist20h(x, y, w, h)

\* chakra_weight > 0.01 (line 148)
AboveThreshold(ev, c, x, y, w, h) ==
    WeightNumerator(ev, c, x, y, w, h) * energy_factor(ev, c)
        > 10 * h * base_radius10(w, h) * radius_factor(ev, c)

\* energy_factor / radius_factor of every chakra over one common
\* denominator: the numerators, in ChakraOrder
EnergyShares(ev) ==
    LET g == Map7([k \in 1..7 |-> GCD(energy_factor(ev, ChakraOrder[k]),
                                  radius_factor(ev, ChakraOrder[k]))])
        den == Map7([k \in 1..7 |-> radius_factor(ev, ChakraOrder[k]) \div g[k]])
        scale == LCM7(den)
    IN  Map7([k \in 1..7 |-> (energy_factor(ev, ChakraOrder[k]) \div g[k]) * (scale \div den[k])])

\* chakra_weights at a pixel (lines 113-155), in ChakraOrder and on one
\* integer scale; 0 for a chakra without influence there
ChakraWeights(ev, share, x, y, w, h) ==
    LET raw == Map7([k \in 1..7 |->
                      IF /\ InReach(ev, ChakraOrder[k], x, y, w, h)
                         /\ AboveThreshold(ev, ChakraOrder[k], x, y, w, h)
                      THEN WeightNumerator(ev, ChakraOrder[k], x, y, w, h) * share[k]
                      ELSE 0])
        common == GCD7(raw)
    IN  IF common = 0 THEN raw ELSE Map7([k \in 1..7 |-> raw[k] \div common])

\* int(c / weight_sum) for the colour sum s over the weight sum t: the exact
\* quotient truncated; a quotient of several weights that is exactly an
\* integer may come out just below it as a float.
IntOfQuotient(s, t, several, low) ==
    IF low /\ several /\ s % t = 0 /\ s \div t >= 1 THEN s \div t - 1 ELSE s \div t

\* min(255, int(c * brightness_boost)) with brightness_boost = 1.25
BoostNoCap(c) == (5 * c) \div 4
Boost(c) == Min2(255, (5 * c) \div 4)

\* alpha of a coloured pixel (lines 183-192); bd is body_dist20h and
\* max_radius is 10000 * height * max_chakra_radius
AlphaRising(bd, max_radius) ==
    IF bd <= 0 THEN (255 * 7) \div 10
    ELSE LET alpha_factor == 500 * bd                    \* times max_radius
         IN  IF alpha_factor > max_radius THEN 0
             ELSE (357 * alpha_factor) \div (2 * max_radius)
AlphaOpaque(bd, max_radius) ==
    IF bd <= 0 THEN 255
    ELSE (255 * (max_radius - 500 * bd)) \div max_radius
Alpha(bd, max_radius) ==
    IF bd <= 0 THEN (255 * 7) \div 10
    ELSE LET alpha_factor == max_radius - 500 * bd       \* times max_radius
         IN  IF alpha_factor < 0 THEN 0
             ELSE (357 * alpha_factor) \div (2 * max_radius)

\* One iteration of the pixel loop (lines 86-195) when no division raises:
\* the RGBA value of the pixel, which stays <<0, 0, 0, 0>> on `continue`.
Pixel(ev, share, x, y, w, h, low) ==
    LET chakra_weights == ChakraWeights(ev, share, x, y, w, h)
        weight_sum == Sum7(chakra_weights)
    IN  IF ~ (weight_sum > 0) THEN <<0, 0, 0, 0>>
        ELSE
        LET several == Sum7(Map7([k \in 1..7 |-> IF chakra_weights[k] > 0 THEN 1 ELSE 0])) > 1
            color == [i \in 1..3 |->
                        Sum7(Map7([k \in 1..7 |-> chakra_colors[ChakraOrder[k]][i]
                                               * chakra_weights[k]]))]
            max_radius == h * base_radius10(w, h)
                            * Max7(Map7([k \in 1..7 |-> IF chakra_weights[k] > 0
                                                   THEN radius_factor(ev, ChakraOrder[k])
                                                   ELSE 0]))
        IN  << Boost(IntOfQuotient(color[1], weight_sum, several, low)),
               Boost(IntOfQuotient(color[2], weight_sum, several, low)),
               Boost(IntOfQuotient(color[3], weight_sum, several, low)),
               Alpha(body_dist20h(x, y, w, h), max_radius) >>

\* horiz_weight = 1.0 - (body_dist / max_dist_for_chakra) raises
\* ZeroDivisionError when a chakra with energy reaches a pixel and its radius
\* is 0 (line 142)
RaisesZeroDivision(ev, w, h) ==
    /\ base_radius10(w, h) = 0
    /\ \E y \in 0..(h - 1), x \in 0..(w - 1), c \in Chakras : InReach(ev, c, x, y, w, h)

\* create_aura_only: the buffer returned, or the exception raised.
create_aura_only(ev, w, h, low) ==
    IF RaisesZeroDivision(ev, w, h)
    THEN [status |-> "raised", buf |-> [p \in {} |-> <<0, 0, 0, 0>>]]
    ELSE LET share == EnergyShares(ev)
         IN  [status |-> "returned",
              buf |-> [p \in (0..(h - 1)) \X (0..(w - 1)) |->
                          Pixel(ev, share, p[2], p[1], w, h, low)]]

---------------------------------------------------------------------------
(* utils.py: calculate_chakra_color                                        *)

\* energy ** 0.7 for energy = e / 100, e = 0..100: the floor of
\* 10000 * (e / 100) ** 0.7.  The power is irrational but for e = 0 and
\* e = 100; the float lies between the entry and the entry plus one.
PowTable ==
    << 0, 398, 646, 858, 1050, 1228, 1395, 1554, 1706, 1853,
       1995, 2132, 2266, 2397, 2525, 2650, 2772, 2892, 3010, 3126,
       3241, 3353, 3464, 3574, 3682, 3789, 3894, 3999, 4102, 4204,
       4305, 4405, 4504, 4602, 4699, 4795, 4891, 4985, 5079, 5173,
       5265, 5357, 5448, 5538, 5628, 5718, 5806, 5894, 5982, 6069,
       6155, 6241, 6327, 6411, 6496, 6580, 6663, 6747, 6829, 6911,
       6993, 7075, 7156, 7236, 7316, 7396, 7476, 7555, 7634, 7712,
       7790, 7868, 7945, 8022, 8099, 8176, 8252, 8328, 8403, 8478,
       8553, 8628, 8703, 8777, 8851, 8924, 8998, 9071, 9144, 9216,
       9289, 9361, 9433, 9504, 9576, 9647, 9718, 9789, 9859, 9929,
       10000 >>

\* energy ** 0.7 (line 17) for a clamped energy that is a whole number of
\* hundredths; up takes the upper end of the table's interval
Pow07(e, up) ==
    LET hundredths == (e[1] * 100) \div e[2]
        low == PowTable[hundredths + 1]
    IN  Rat(IF up /\ hundredths \notin {0, 100} THEN low + 1 ELSE low, 10000)

\* max(base_color)
MaxChannel(base) == Max2(base[1], Max2(base[2], base[3]))

\* One channel of the middle branch (lines 54-67)
MidChannel(channel, max_channel, brightness, saturation_boost, factor) ==
    LET brightness_value == RTrunc(RMul(RInt(channel), brightness))
        saturation_value ==
            IF channel = max_channel
            THEN Min2(255, RTrunc(RMul(RInt(brightness_value), saturation_boost)))
            ELSE RTrunc(RMul(RInt(brightness_value),
                             RSub(RInt(1), RMul(factor, Rat(2, 10)))))
    IN  Min2(255, saturation_value)

\* calculate_chakra_color(base_color, energy), energy a rational
calculate_chakra_color(base, e, up) ==
    LET clamped == RMax(RInt(0), RMin(RInt(1), e))
        adjusted_energy == Pow07(clamped, up)
    IN  IF RLe(Rat(8, 10), adjusted_energy)
        THEN LET white_component == RMul(RSub(adjusted_energy, Rat(8, 10)), RInt(5))
                 brightness_boost == RAdd(Rat(125, 100),
                                          RMul(RSub(adjusted_energy, Rat(8, 10)), Rat(25, 10)))
             IN  [i \in 1..3 |->
                    Min2(255, RTrunc(RAdd(RMul(RInt(base[i]), brightness_boost),
                                          RMul(white_component, RInt(255)))))]
        ELSE IF RLe(Rat(3, 10), adjusted_energy)
        THEN LET factor == RDiv(RSub(adjusted_energy, Rat(3, 10)), Rat(5, 10))
                 brightness == RAdd(Rat(7, 10), RMul(factor, Rat(55, 100)))
                 saturation_boost == RAdd(RInt(1), RMul(factor, Rat(3, 10)))
                 max_channel == IF MaxChannel(base) = 0 THEN 1 ELSE MaxChannel(base)
             IN  [i \in 1..3 |->
                    MidChannel(base[i], max_channel, brightness, saturation_boost, factor)]
        ELSE LET min_brightness == Rat(15, 100)
                 brightness ==
                     IF RLt(adjusted_energy, Rat(1, 10))
                     THEN RAdd(min_brightness,
                               RMul(RDiv(adjusted_energy, Rat(1, 10)), Rat(15, 100)))
                     ELSE RAdd(Rat(3, 10),
                               RMul(RDiv(RSub(adjusted_energy, Rat(1, 10)), Rat(2, 10)),
                                    Rat(4, 10)))
             IN  [i \in 1..3 |-> RTrunc(RMul(RInt(base[i]), brightness))]

---------------------------------------------------------------------------
(* Calls of create_aura_only and calculate_chakra_color                    *)

\* The energy profiles and image sizes tried.
EnergyLevels == {0, 50, 100}
MaxWidth == 4
MaxHeight == 4
\* The base colours and energies tried.
ColorChannels == {0, 128, 191, 255}
EnergyPercents == 0..100

CreateAuraOnly ==
    /\ call = "create_aura_only"
    /\ aura = None
    /\ aura' = Some(create_aura_only(aura_energy, width, height, fp_low))
    /\ UNCHANGED <<vars_an, vars_organ, call, aura_energy, width, height, fp_low, vars_color,
                   vars_overlay, vars_ui, vars_rest>>

CalculateChakraColor ==
    /\ call = "calculate_chakra_color"
    /\ adjusted_color = None
    /\ adjusted_color' = Some(calculate_chakra_color(base_color, Rat(energy_percent, 100), pow_up))
    /\ UNCHANGED <<vars_an, vars_organ, call, vars_aura, base_color, energy_percent, pow_up,
                   vars_overlay, vars_ui, vars_rest>>

InitAura ==
    /\ IdleAn
    /\ IdleOrgan
    /\ IdleUI
    /\ IdleRest
    /\ IdleOverlay
    /\ \/ /\ call = "create_aura_only"
          /\ aura_energy \in [Chakras -> EnergyLevels]
          /\ width \in 1..MaxWidth
          /\ height \in 1..MaxHeight
          /\ fp_low \in BOOLEAN
          /\ aura = None
          /\ IdleColor
       \/ /\ call = "calculate_chakra_color"
          /\ base_color \in [1..3 -> ColorChannels]
          /\ energy_percent \in EnergyPercents
          /\ pow_up \in BOOLEAN
          /\ adjusted_color = None
          /\ IdleAura

NextAura == CreateAuraOnly \/ CalculateChakraColor

SpecAura == InitAura /\ [][NextAura]_vars

---------------------------------------------------------------------------
(* Claims about create_aura_only and calculate_chakra_color                *)

AuraReturned == call = "create_aura_only" /\ aura # None /\ The(aura).status = "returned"
AuraBuffer == The(aura).buf

\* C4: create_aura_only called with all seven energies equal to 0 returns,
\* whatever the width and height, a buffer in which no pixel was written:
\* every pixel is <<0, 0, 0, 0>>, so every alpha is 0.
C4_ZeroEnergyTransparent ==
    (call = "create_aura_only" /\ aura # None /\ \A c \in Chakras : aura_energy[c] = 0)
        => /\ The(aura).status = "returned"
           /\ \A p \in DOMAIN AuraBuffer : AuraBuffer[p] = <<0, 0, 0, 0>>

\* The all-zero profile on an image size that other profiles paint on.
C4_Witness ==
    /\ AuraReturned
    /\ \A c \in Chakras : aura_energy[c] = 0
    /\ width >= 2
    /\ height >= 3
    /\ DOMAIN AuraBuffer = (0..(height - 1)) \X (0..(width - 1))
    /\ \A p \in DOMAIN AuraBuffer : AuraBuffer[p][4] = 0

\* C5: every pixel of the buffer returned by create_aura_only has its alpha
\* in 0..255 and at most int(255 * 0.7) = 178.
C5_AlphaWithinCap ==
    AuraReturned => \A p \in DOMAIN AuraBuffer :
                        AuraBuffer[p][4] \in 0..255 /\ AuraBuffer[p][4] <= 178

\* A buffer with a pixel inside the silhouette (alpha at the cap) and a pixel
\* outside it whose alpha was scaled down without reaching 0.
C5_Witness ==
    /\ AuraReturned
    /\ \E p \in DOMAIN AuraBuffer : AuraBuffer[p][4] = 178
    /\ \E p \in DOMAIN AuraBuffer :
          /\ body_dist20h(p[2], p[1], width, height) > 0
          /\ AuraBuffer[p][4] > 0
          /\ AuraBuffer[p][4] < 178

\* create_aura_only on images wide enough for a row to hold pixels at several distances
\* beyond the silhouette
InitAuraWide ==
    /\ IdleAn
    /\ IdleOrgan
    /\ IdleUI
    /\ IdleRest
    /\ IdleOverlay
    /\ IdleColor
    /\ call = "create_aura_only"
    /\ aura_energy \in [Chakras -> EnergyLevels]
    /\ width = MaxWidth + 2
    /\ height = MaxHeight + 2
    /\ fp_low \in BOOLEAN
    /\ aura = None

NextAuraWide == CreateAuraOnly

SpecAuraWide == InitAuraWide /\ [][NextAuraWide]_vars

\* body_dist of the pixel p = <<y, x>> of the buffer
BodyDist(p) == body_dist20h(p[2], p[1], width, height)

\* C14: along every row of the buffer returned by create_aura_only, alpha does not
\* increase with the distance beyond the silhouette: of two pixels of a row, the one with
\* the smaller or equal body_dist has the greater or equal alpha.
C14_AlphaNonIncreasing ==
    AuraReturned =>
        \A p, q \in DOMAIN AuraBuffer :
            (p[1] = q[1] /\ BodyDist(p) <= BodyDist(q)) => AuraBuffer[p][4] >= AuraBuffer[q][4]

\* A row with a pixel inside the silhouette and two pixels beyond it at different
\* distances, all three coloured, for a profile of unequal energies.
C14_Witness ==
    /\ AuraReturned
    /\ \E c, d \in Chakras : aura_energy[c] > aura_energy[d] /\ aura_energy[d] > 0
    /\ \E p, q, r \in DOMAIN AuraBuffer :
          /\ p[1] = q[1] /\ q[1] = r[1]
          /\ BodyDist(p) = 0 /\ 0 < BodyDist(q) /\ BodyDist(q) < BodyDist(r)
          /\ AuraBuffer[p][4] = 178
          /\ AuraBuffer[q][4] < 178
          /\ AuraBuffer[r][4] < AuraBuffer[q][4]
          /\ AuraBuffer[r][4] > 0

\* C15: create_aura_only always returns, for every positive width and height and every
\* energy profile, a buffer of height rows, width columns and 4 channels.
C15_ReturnsBufferOfSize ==
    (call = "create_aura_only" /\ aura # None) =>
        /\ The(aura).status = "returned"
        /\ DOMAIN AuraBuffer = (0..(height - 1)) \X (0..(width - 1))
        /\ \A p \in DOMAIN AuraBuffer : Len(AuraBuffer[p]) = 4

\* C6: the channels returned by calculate_chakra_color(base, energy / 100),
\* for a base colour with channels in 0..255 and an energy in [0, 100], are
\* in 0..255, and so are the R, G and B of every pixel of the buffer
\* returned by create_aura_only.
C6_ChannelsInRange ==
    /\ (call = "calculate_chakra_color" /\ adjusted_color # None)
          => \A i \in 1..3 : The(adjusted_color)[i] \in 0..255
    /\ AuraReturned
          => \A p \in DOMAIN AuraBuffer : \A i \in 1..3 : AuraBuffer[p][i] \in 0..255

\* A colour brightened up to the cap: a channel below 255 comes back as 255,
\* while another channel stays below it.
C6_Witness ==
    /\ call = "calculate_chakra_color"
    /\ adjusted_color # None
    /\ energy_percent \in 1..100
    /\ \E i \in 1..3 : base_color[i] < 255 /\ The(adjusted_color)[i] = 255
    /\ \E i \in 1..3 : The(adjusted_color)[i] \in 1..254

---------------------------------------------------------------------------
(* aura_photo.py: overlay_aura_on_photo                                    *)

(* numpy arrays are objects on a heap: a variable holds a reference (an    *)
(* index of the heap), so that two names of one array can be told from a   *)
(* copy.  An array is [shape, data]: shape is <<h, w>> or <<h, w, ch>>,    *)
(* data maps <<y, x>> to the sequence of the pixel's channel values (one   *)
(* value for a two-dimensional array).                                     *)

\* a new array on the heap: the heap after the allocation and the reference
Alloc(h, array) == [heap |-> Append(h, array), ref |-> Len(h) + 1]

\* ndarray.copy(); the variant hands back the array itself
CopyAlias(h, ref) == [heap |-> h, ref |-> ref]
Copy(h, ref) == Alloc(h, h[ref])

\* the number of channels of a pixel of the array
Channels(array) == IF Len(array.shape) = 3 THEN array.shape[3] ELSE 1

\* cv2.resize(aura, (width, height)) of an aura whose pixels are all equal:
\* every interpolated pixel is that pixel
Resize(array, w, h) ==
    LET pixel == array.data[<<0, 0>>]
    IN  [shape |-> IF Len(array.shape) = 3 THEN <<h, w, array.shape[3]>> ELSE <<h, w>>,
         data |-> [p \in (0..(h - 1)) \X (0..(w - 1)) |-> pixel]]

\* cv2.cvtColor(photo, cv2.COLOR_RGB2RGBA): an opaque alpha channel is added
CvtColorRGB2RGBA(array) ==
    [shape |-> <<array.shape[1], array.shape[2], 4>>,
     data |-> [p \in DOMAIN array.data |-> Append(array.data[p], 255)]]

\* (1 - alpha) * background + alpha * foreground with alpha = a / 255,
\* stored into the uint8 result
BlendValue(a, background, foreground) ==
    ((255 - a) * background + a * foreground) \div 255

\* The blending loop from channel c on (lines 414-422), c counted from 1.
\* The right-hand side is evaluated before result[:, :, c] is written:
\* aura[:, :, 3] raises IndexError for an aura without a fourth channel,
\* photo_rgba[:, :, c] for a photo with fewer than c channels.
RECURSIVE BlendFrom(_, _, _, _, _)
BlendFrom(h, c, result, photo_rgba, aura_ref) ==
    IF c > 3 THEN [heap |-> h, raised |-> FALSE]
    ELSE IF Len(h[aura_ref].shape) < 3 \/ Channels(h[aura_ref]) < 4
         THEN [heap |-> h, raised |-> TRUE]
    ELSE IF Len(h[photo_rgba].shape) < 3 \/ Channels(h[photo_rgba]) < c
         THEN [heap |-> h, raised |-> TRUE]
    ELSE LET blended == [p \in DOMAIN h[result].data |->
                            [h[result].data[p] EXCEPT ![c] =
                                BlendValue(h[aura_ref].data[p][4],
                                           h[photo_rgba].data[p][c],
                                           h[aura_ref].data[p][c])]]
             written == [h EXCEPT ![result] = [@ EXCEPT !.data = blended]]
         IN  BlendFrom(written, c + 1, result, photo_rgba, aura_ref)

\* overlay_aura_on_photo(photo, aura): the heap when it returns, the
\* reference returned and whether the except clause was taken.
overlay_aura_on_photo(h, photo, aura_ref, resize_fails) ==
    LET failed(hp) == [heap |-> hp, returned |-> photo, raised |-> TRUE]
        differ == \/ h[photo].shape[1] # h[aura_ref].shape[1]
                  \/ h[photo].shape[2] # h[aura_ref].shape[2]
    IN  IF differ /\ resize_fails THEN failed(h)
        ELSE
        LET resized == IF differ
                       THEN Alloc(h, Resize(h[aura_ref], h[photo].shape[2], h[photo].shape[1]))
                       ELSE [heap |-> h, ref |-> aura_ref]
        IN  IF Len(h[photo].shape) < 3 THEN failed(resized.heap)   \* photo.shape[2]
            ELSE
            LET rgba == IF h[photo].shape[3] = 3
                        THEN Alloc(resized.heap, CvtColorRGB2RGBA(h[photo]))
                        ELSE Copy(resized.heap, photo)
                result == Copy(rgba.heap, rgba.ref)
                blend == BlendFrom(result.heap, 1, result.ref, rgba.ref, resized.ref)
            IN  IF blend.raised THEN failed(blend.heap)
                ELSE LET astype == Copy(blend.heap, result.ref)
                     IN  [heap |-> astype.heap, returned |-> astype.ref, raised |-> FALSE]

\* The photos and auras tried: one row of at most MaxOverlayWidth pixels.
MaxOverlayWidth == 2
PhotoChannels == {0, 1, 2, 3, 4}       \* 0: a two-dimensional (grey) photo
AuraChannels == {0, 3, 4}
\* grey levels of the photo and pixels of the aura for which the blend is
\* not a whole number unless alpha is 0 or 255
PhotoLevels == {10, 200}
AuraPixels == {<<255, 0, 0, 178>>, <<0, 255, 0, 0>>, <<0, 0, 255, 255>>}

Shape(w, ch) == IF ch = 0 THEN <<1, w>> ELSE <<1, w, ch>>
Photos ==
    UNION {{[shape |-> Shape(w, ch),
             data |-> [p \in {0} \X (0..(w - 1)) |->
                          [i \in 1..(IF ch = 0 THEN 1 ELSE ch) |-> level[p[2] + 1]]]]
              : level \in [1..w -> PhotoLevels]}
           : w \in 1..MaxOverlayWidth, ch \in PhotoChannels}
Auras ==
    {[shape |-> Shape(w, ch),
      data |-> [p \in {0} \X (0..(w - 1)) |->
                   SubSeq(pixel, 1, IF ch = 0 THEN 1 ELSE ch)]]
       : w \in 1..MaxOverlayWidth, ch \in AuraChannels, pixel \in AuraPixels}

OverlayAuraOnPhoto ==
    /\ call = "overlay_aura_on_photo"
    /\ overlay_result = None
    /\ LET r == overlay_aura_on_photo(heap, overlay_photo, overlay_aura, resize_raises)
       IN  /\ heap' = r.heap
           /\ overlay_result' = Some([returned |-> r.returned, raised |-> r.raised])
    /\ UNCHANGED <<vars_an, vars_organ, call, vars_aura, vars_color,
                   overlay_photo, overlay_aura, resize_raises, given_photo, vars_ui, vars_rest>>

InitOverlay ==
    /\ IdleAn
    /\ IdleOrgan
    /\ IdleUI
    /\ IdleRest
    /\ IdleAura
    /\ IdleColor
    /\ call = "overlay_aura_on_photo"
    /\ \E photo \in Photos, aura_image \in Auras :
          /\ heap = <<photo, aura_image>>
          /\ given_photo = Some(photo)
    /\ overlay_photo = 1
    /\ overlay_aura = 2
    /\ resize_raises \in BOOLEAN
    /\ overlay_result = None

NextOverlay == OverlayAuraOnPhoto

SpecOverlay == InitOverlay /\ [][NextOverlay]_vars

---------------------------------------------------------------------------
(* Claims about overlay_aura_on_photo                                      *)

\* C7: when a step of overlay_aura_on_photo raises, the function still
\* returns, what it returns is the very photo it was given, and the contents
\* of that photo are what they were at the call.
C7_PhotoReturnedUnmodified ==
    (overlay_result # None /\ The(overlay_result).raised)
        => /\ The(overlay_result).returned = overlay_photo
           /\ heap[overlay_photo] = The(given_photo)

\* A photo with two channels: the first two channels were blended into the
\* result before photo_rgba[:, :, 2] raised, so a changed copy is on the heap.
C7_Witness ==
    /\ overlay_result # None
    /\ The(overlay_result).raised
    /\ Len(heap[overlay_photo].shape) = 3
    /\ heap[overlay_photo].shape[3] = 2
    /\ \E ref \in 3..Len(heap) :
          /\ heap[ref].shape = heap[overlay_photo].shape
          /\ heap[ref].data # heap[overlay_photo].data

---------------------------------------------------------------------------
(* diagnostic_analyzer.py: analyze_report                                  *)

(* An uploaded PDF is [raises, pages]: whether reading it raises, and its  *)
(* pages, each the sequence of table rows its text holds.  A text is      *)
(* [newlines, rows]: extract_text_from_pdf adds "\n" after every page, so  *)
(* the text is the empty string exactly when there is no page.            *)
EmptyText == [newlines |-> 0, rows |-> <<>>]

RECURSIVE PagesText(_)
\* text += page.extract_text() + "\n" for every page (lines 63-65)
PagesText(pages) ==
    IF pages = <<>> THEN EmptyText
    ELSE LET rest == PagesText(Tail(pages))
         IN  [newlines |-> 1 + rest.newlines, rows |-> Head(pages) \o rest.rows]

\* extract_text_from_pdf: "" when anything raises (lines 52-70)
extract_text_from_pdf(pdf) == IF pdf.raises THEN EmptyText ELSE PagesText(pdf.pages)

RECURSIVE ExtractRows(_, _)
\* the loop of extract_diagnostic_data over the matches (lines 136-176)
ExtractRows(dd, rows) ==
    IF rows = <<>> THEN dd
    ELSE ExtractRows(ExtractRow(dd, Head(rows)).data, Tail(rows))

extract_diagnostic_data(text) == ExtractRows(EmptyDict, text.rows)

\* the dict returned for a text, from line 324 on
AnalysisOf(text) ==
    LET data == extract_diagnostic_data(text)
    IN  [client_info |-> EmptyDict,
         diagnostic_data |-> data,
         chakra_energy |-> map_to_chakras(data)]

\* analyze_report; the variant goes on without the check of line 319
analyze_report_unchecked(pdf) == AnalysisOf(extract_text_from_pdf(pdf))
analyze_report(pdf) ==
    LET text == extract_text_from_pdf(pdf)
    IN  IF text = EmptyText
        THEN [error |-> "no text extracted from the PDF file"]
        ELSE AnalysisOf(text)

\* The PDFs a user uploads: one that cannot be read, one without pages, one
\* whose page holds no table, and reports with one and two rows.
LipidsRow == [parameter |-> "Lipids", range_min |-> <<"1">>, range_max |-> <<"2", ",", "5">>,
              result |-> <<"3">>]
StrokeVolumeRow == [parameter |-> "StrokeVolume", range_min |-> <<"1">>, range_max |-> <<"3">>,
                    result |-> <<"2", ",", "5">>]
Pdfs ==
    { [raises |-> TRUE, pages |-> <<<<LipidsRow>>>>],
      [raises |-> FALSE, pages |-> <<>>],
      [raises |-> FALSE, pages |-> <<<<>>>>],
      [raises |-> FALSE, pages |-> <<<<LipidsRow>>>>],
      [raises |-> FALSE, pages |-> <<<<LipidsRow>>, <<StrokeVolumeRow>>>>] }

---------------------------------------------------------------------------
(* main.py and pages/chakra_energy_values.py: the Streamlit scripts        *)

\* chakra_data.index(chakra)
ChakraIndex(c) == (CHOOSE i \in 1..7 : ChakraOrder[i] = c) - 1

\* dict.update
Update(dict, other) ==
    [k \in DOMAIN dict \cup DOMAIN other |-> IF k \in DOMAIN other THEN other[k] ELSE dict[k]]

\* the keys of energy_profiles (main.py, lines 403-413)
energy_profiles ==
    {"custom", "all_100", "all_50", "linear_up", "linear_down", "alternating",
     "low_energy", "high_energy", "imbalanced"}

\* energy_values after the branch of the selected profile (main.py, lines 427-469)
ApplyEnergyProfile(ev, selected) ==
    LET i(c) == ChakraIndex(c)
        set(values) == Update(ev, values)
    IN  CASE selected = "all_100" -> set([c \in Chakras |-> RInt(100)])
          [] selected = "all_50" -> set([c \in Chakras |-> RInt(50)])
          [] selected = "linear_up" ->
                set([c \in Chakras |-> RAdd(RInt(30), Rat(60 * i(c), 6))])
          [] selected = "linear_down" ->
                set([c \in Chakras |-> RSub(RInt(90), Rat(60 * i(c), 6))])
          [] selected = "alternating" ->
                set([c \in Chakras |-> IF i(c) % 2 = 0 THEN RInt(40) ELSE RInt(80)])
          [] selected = "low_energy" ->
                set([c \in Chakras |-> RAdd(RInt(10), RMul(RInt(20), Rat(i(c), 6)))])
          [] selected = "high_energy" ->
                set([c \in Chakras |-> RAdd(RInt(70), RMul(RInt(20), Rat(i(c), 6)))])
          [] selected = "imbalanced" ->
                set(("Root" :> RInt(85)) @@ ("Sacral" :> RInt(40)) @@
                    ("Solar Plexus" :> RInt(70)) @@ ("Heart" :> RInt(30)) @@
                    ("Throat" :> RInt(90)) @@ ("Third Eye" :> RInt(50)) @@
                    ("Crown" :> RInt(60)))
          [] OTHER -> ev

\* a dict literal over all the chakras, in ChakraOrder
Profile7(a, b, c, d, e, f, g) ==
    ("Root" :> RInt(a)) @@ ("Sacral" :> RInt(b)) @@ ("Solar Plexus" :> RInt(c)) @@
    ("Heart" :> RInt(d)) @@ ("Throat" :> RInt(e)) @@ ("Third Eye" :> RInt(f)) @@
    ("Crown" :> RInt(g))

\* test_profiles (pages/chakra_energy_values.py, lines 414-463); the literal
\* of "upper_dominant" names "Solar Plexus" twice and "Third Eye" never
test_profiles ==
    ("balanced" :> [c \in Chakras |-> RInt(100)]) @@
    ("crown_blocked" :> Update([c \in Chakras |-> RInt(100)], "Crown" :> RInt(20))) @@
    ("third_eye_overactive" :>
        Update([c \in Chakras |-> RInt(100)], "Third Eye" :> RInt(150))) @@
    ("heart_balanced" :> Profile7(70, 85, 90, 100, 90, 85, 70)) @@
    ("lower_dominant" :> Profile7(130, 120, 110, 90, 80, 70, 60)) @@
    ("upper_dominant" :>
        (("Root" :> RInt(60)) @@ ("Sacral" :> RInt(70)) @@ ("Solar Plexus" :> RInt(120)) @@
         ("Heart" :> RInt(90)) @@ ("Throat" :> RInt(110)) @@ ("Crown" :> RInt(130)))) @@
    ("alternating" :> Profile7(120, 70, 130, 90, 140, 60, 110)) @@
    ("health_issues" :> Profile7(60, 50, 65, 55, 70, 80, 90))

\* for chakra in chakra_data: a missing chakra gets 100 (lines 394-396)
FillMissing(ev) == Update([c \in Chakras |-> RInt(100)], ev)

\* the report values taken over at the top of the script (lines 51-68)
ReportValues(analysis) == [c \in DOMAIN analysis.chakra_energy |-> analysis.chakra_energy[c]]

\* truthiness of session_state.report_analysis / apply_results with the key
HasChakraEnergy(results) == results # None /\ "chakra_energy" \in DOMAIN The(results)

\* The user's inputs tried, and the number of user events of a session.
MaxPasses == 3
SliderValues == {0, 150}
Pages == {"main", "chakra_energy_values"}

vars_other == <<vars_an, vars_organ, vars_image, vars_rest>>

\* A user event starts a pass of the script of the page shown.
UserEvent ==
    /\ pc = "idle"
    /\ passes < MaxPasses
    /\ passes' = passes + 1
    /\ pc' = "start"

\* the user uploads a PDF in the file_uploader (line 269)
UploadFile ==
    /\ UserEvent
    /\ \E pdf \in Pdfs : uploaded_file' = Some(pdf)
    /\ UNCHANGED <<page, keyed_identity, session, selected_profile, apply_profile, sliders,
                   apply_button, analysis_results, drawn, vars_other>>

\* the user removes the uploaded file
RemoveFile ==
    /\ UserEvent
    /\ uploaded_file # None
    /\ uploaded_file' = None
    /\ UNCHANGED <<page, keyed_identity, session, selected_profile, apply_profile, sliders,
                   apply_button, analysis_results, drawn, vars_other>>

\* the user picks a profile in the selectbox of main.py (line 415)
SelectEnergyProfile ==
    /\ UserEvent
    /\ page = "main"
    /\ \E p \in energy_profiles : selected_profile' = Some(p)
    /\ UNCHANGED <<page, keyed_identity, session, uploaded_file, apply_profile, sliders,
                   apply_button, analysis_results, drawn, vars_other>>

\* the user picks a test profile and clicks the apply_profile button of the
\* page (lines 466-473)
ClickApplyProfile ==
    /\ UserEvent
    /\ page = "chakra_energy_values"
    /\ \E p \in DOMAIN test_profiles : apply_profile' = Some(p)
    /\ UNCHANGED <<page, keyed_identity, session, uploaded_file, selected_profile, sliders,
                   apply_button, analysis_results, drawn, vars_other>>

\* the user moves a slider of the page (line 525); the slider was rendered
MoveSlider ==
    /\ UserEvent
    /\ page = "chakra_energy_values"
    /\ \E c \in Chakras, v \in SliderValues :
          /\ sliders[c] # None
          /\ sliders' = [sliders EXCEPT ![c] = Some([The(@) EXCEPT !.value = v])]
    /\ UNCHANGED <<page, keyed_identity, session, uploaded_file, selected_profile,
                   apply_profile, apply_button, analysis_results, drawn, vars_other>>

\* the user clicks the button rendered at line 312: its callback
\* update_chakra_values runs before the script (lines 304-309)
ClickApplyResults ==
    /\ UserEvent
    /\ apply_button # None
    /\ apply_results' = apply_button
    /\ UNCHANGED <<page, keyed_identity, energy_values, report_processed, report_analysis,
                   chakra_data_source, energy_profile, uploaded_file, selected_profile,
                   apply_profile, sliders, apply_button, analysis_results, drawn, vars_other>>

\* the user opens the other page: the widgets of the page left lose their state
OpenPage ==
    /\ UserEvent
    /\ \E p \in Pages \ {page} : page' = p
    /\ uploaded_file' = None
    /\ selected_profile' = None
    /\ apply_profile' = None
    /\ sliders' = [c \in Chakras |-> None]
    /\ apply_button' = None
    /\ UNCHANGED <<keyed_identity, session, analysis_results, drawn, vars_other>>

\* any other interaction: the script runs again with the widgets as they are
Refresh ==
    /\ UserEvent
    /\ UNCHANGED <<page, keyed_identity, session, uploaded_file, selected_profile,
                   apply_profile, sliders, apply_button, analysis_results, drawn, vars_other>>

\* The top of the script (lines 14-94): the defaults are in place, then the
\* report or the temporary results are taken over.
ApplySources ==
    /\ pc = "start"
    /\ pc' = "upload"
    /\ IF report_processed /\ HasChakraEnergy(report_analysis)
       THEN /\ chakra_data_source' = "report"
            /\ energy_values' = Update(energy_values, ReportValues(The(report_analysis)))
            /\ UNCHANGED apply_results
       ELSE IF HasChakraEnergy(apply_results)
       THEN /\ chakra_data_source' = "temp_results"
            /\ energy_values' = Update(energy_values, ReportValues(The(apply_results)))
            /\ apply_results' = None
       ELSE UNCHANGED <<chakra_data_source, energy_values, apply_results>>
    \* the elements of the pass before are gone
    /\ apply_button' = None
    /\ analysis_results' = None
    /\ drawn' = None
    /\ UNCHANGED <<page, passes, keyed_identity, report_processed, report_analysis,
                   energy_profile, uploaded_file, selected_profile, apply_profile, sliders,
                   vars_other>>

\* The report upload section with the condition of line 276 reduced to
\* "uploaded_file is not None": every uploaded file is analysed.
HandleUploadAgain ==
    /\ pc = "upload"
    /\ pc' = "profiles"
    /\ IF uploaded_file # None
       THEN LET results == analyze_report(The(uploaded_file))
            IN  /\ analysis_results' = Some(results)
                /\ IF "error" \in DOMAIN results
                   THEN UNCHANGED <<report_analysis, report_processed, apply_button>>
                   ELSE /\ report_analysis' = Some(results)
                        /\ report_processed' = TRUE
                        /\ apply_button' = Some(results)
       ELSE UNCHANGED <<analysis_results, report_analysis, report_processed, apply_button>>
    /\ UNCHANGED <<page, passes, keyed_identity, energy_values, apply_results,
                   chakra_data_source, energy_profile, uploaded_file, selected_profile,
                   apply_profile, sliders, drawn, vars_other>>

\* The report upload section (lines 269-316).
HandleUpload ==
    /\ pc = "upload"
    /\ pc' = "profiles"
    /\ IF uploaded_file # None /\ ~ report_processed
       THEN LET results == analyze_report(The(uploaded_file))
            IN  /\ analysis_results' = Some(results)
                /\ IF "error" \in DOMAIN results
                   THEN UNCHANGED <<report_analysis, report_processed, apply_button>>
                   ELSE /\ report_analysis' = Some(results)
                        /\ report_processed' = TRUE
                        /\ apply_button' = Some(results)
       ELSE UNCHANGED <<analysis_results, report_analysis, report_processed, apply_button>>
    /\ UNCHANGED <<page, passes, keyed_identity, energy_values, apply_results,
                   chakra_data_source, energy_profile, uploaded_file, selected_profile,
                   apply_profile, sliders, drawn, vars_other>>

\* main.py, lines 393-472: missing chakras are filled in, then the profile of
\* the selectbox is applied when it differs from session_state.energy_profile;
\* st.rerun() starts the script again.
SelectedProfile ==
    IF selected_profile # None THEN The(selected_profile)
    ELSE IF energy_profile \in energy_profiles THEN energy_profile
    ELSE "custom"
ProfilesMain ==
    /\ pc = "profiles"
    /\ page = "main"
    /\ selected_profile' = None
    /\ IF SelectedProfile # energy_profile
       THEN /\ energy_profile' = SelectedProfile
            /\ energy_values' = ApplyEnergyProfile(FillMissing(energy_values), SelectedProfile)
            /\ pc' = "start"
       ELSE /\ energy_values' = FillMissing(energy_values)
            /\ pc' = "draw"
            /\ UNCHANGED energy_profile
    /\ UNCHANGED <<page, passes, keyed_identity, report_processed, report_analysis,
                   apply_results, chakra_data_source, uploaded_file, apply_profile, sliders,
                   apply_button, analysis_results, drawn, vars_other>>

\* pages/chakra_energy_values.py, lines 404-480: missing chakras are filled
\* in, then the test profile is applied when the button was clicked.
ProfilesPage ==
    /\ pc = "profiles"
    /\ page = "chakra_energy_values"
    /\ apply_profile' = None
    /\ IF apply_profile # None
       THEN /\ energy_values' = test_profiles[The(apply_profile)]
            /\ energy_profile' = The(apply_profile)
            /\ chakra_data_source' = "test_profile"
            /\ pc' = "start"
       ELSE /\ energy_values' = FillMissing(energy_values)
            /\ pc' = "sliders"
            /\ UNCHANGED <<energy_profile, chakra_data_source>>
    /\ UNCHANGED <<page, passes, keyed_identity, report_processed, report_analysis,
                   apply_results, uploaded_file, selected_profile, sliders, apply_button,
                   analysis_results, drawn, vars_other>>

\* st.slider(min_value=0, max_value=200, value=int(current_value), key=...):
\* the value of the widget's state; a slider without state, or one whose
\* value argument changed in a build that identifies widgets by their
\* arguments, starts from the value argument
SliderValue(state, value) ==
    IF state = None THEN value
    ELSE IF keyed_identity \/ The(state).default = value THEN The(state).value
    ELSE value

\* The slider loop of the page (lines 494-536).
Sliders ==
    /\ pc = "sliders"
    /\ pc' = "draw"
    /\ LET current_value(c) == Get(energy_values, c, RInt(100))
           new_value == [c \in Chakras |-> SliderValue(sliders[c], RTrunc(current_value(c)))]
       IN  /\ sliders' = [c \in Chakras |->
                            Some([value |-> new_value[c],
                                  default |-> RTrunc(current_value(c))])]
           /\ energy_values' = Update(energy_values, [c \in Chakras |-> RInt(new_value[c])])
    /\ UNCHANGED <<page, passes, keyed_identity, report_processed, report_analysis,
                   apply_results, chakra_data_source, energy_profile, uploaded_file,
                   selected_profile, apply_profile, apply_button, analysis_results, drawn,
                   vars_other>>

\* create_chakra_visualization(st.session_state.energy_values, ...)
\* (main.py, lines 504-518; the page, lines 556-563): the pass ends.
Draw ==
    /\ pc = "draw"
    /\ pc' = "idle"
    /\ drawn' = Some(energy_values)
    /\ UNCHANGED <<page, passes, keyed_identity, session, uploaded_file, selected_profile,
                   apply_profile, sliders, apply_button, analysis_results, vars_other>>

\* A new session: the defaults of lines 14-41, and the first pass of the
\* script of the page opened is about to run.
Init ==
    /\ IdleAn
    /\ IdleOrgan
    /\ IdleImage
    /\ IdleRest
    /\ page \in Pages
    /\ pc = "start"
    /\ passes = 0
    /\ keyed_identity \in BOOLEAN
    /\ energy_values = [c \in Chakras |-> RInt(100)]
    /\ report_processed = FALSE
    /\ report_analysis = None
    /\ apply_results = None
    /\ chakra_data_source = "default"
    /\ energy_profile = "custom"
    /\ NoWidgetState
    /\ analysis_results = None
    /\ drawn = None

Next ==
    \/ UploadFile
    \/ RemoveFile
    \/ SelectEnergyProfile
    \/ ClickApplyProfile
    \/ MoveSlider
    \/ ClickApplyResults
    \/ OpenPage
    \/ Refresh
    \/ ApplySources
    \/ HandleUpload
    \/ ProfilesMain
    \/ ProfilesPage
    \/ Sliders
    \/ Draw

Spec == Init /\ [][Next]_vars

---------------------------------------------------------------------------
(* Claims about the scripts                                                *)

\* C3: in every state of the session, session_state.energy_values maps
\* exactly the seven chakra names to values within [0, 100].
C3_EnergyValuesWellFormed ==
    /\ DOMAIN energy_values = Chakras
    /\ \A c \in DOMAIN energy_values :
          RLe(RInt(0), energy_values[c]) /\ RLe(energy_values[c], RInt(100))

\* C10: when the text extraction of the uploaded PDF fails (it raises, or
\* the text is empty), analyze_report returns a dict with 'error', and the
\* upload section leaves report_processed False and report_analysis and
\* energy_values as they were.
C10_FailedExtraction ==
    [][(/\ pc = "upload"
        /\ uploaded_file # None
        /\ ~ report_processed
        /\ extract_text_from_pdf(The(uploaded_file)) = EmptyText)
          => /\ analysis_results' # None
             /\ "error" \in DOMAIN The(analysis_results')
             /\ report_processed' = FALSE
             /\ report_analysis' = report_analysis
             /\ energy_values' = energy_values]_vars

\* The upload section has just handled a PDF whose reading raised, in a
\* session whose energy values are no longer the defaults.
C10_Witness ==
    /\ pc = "profiles"
    /\ uploaded_file # None
    /\ The(uploaded_file).raises
    /\ analysis_results # None
    /\ "error" \in DOMAIN The(analysis_results)
    /\ ~ report_processed
    /\ energy_values # [c \in Chakras |-> RInt(100)]

\* C16: in main.py report data are applied before energy_values are used: at the end of
\* every pass in which report_processed is True when the visualization is drawn, the
\* energy values drawn are the report's chakra_energy and chakra_data_source is "report".
C16_ReportAppliedBeforeDrawn ==
    (page = "main" /\ pc = "idle" /\ drawn # None /\ report_processed) =>
        /\ \A c \in DOMAIN ReportValues(The(report_analysis)) :
              The(drawn)[c] = ReportValues(The(report_analysis))[c]
        /\ chakra_data_source = "report"

\* C17: the pass that follows the click on the button of the report results applies
\* apply_results["chakra_energy"] to energy_values, sets chakra_data_source to
\* "temp_results" and resets apply_results to None.
C17_ApplyResultsUsedAndCleared ==
    [][(pc = "start" /\ pc' = "upload" /\ HasChakraEnergy(apply_results)) =>
          /\ energy_values' = Update(energy_values, ReportValues(The(apply_results)))
          /\ chakra_data_source' = "temp_results"
          /\ apply_results' = None]_vars

\* C21: report_processed never goes from True back to False; once it is True the upload
\* section analyses no uploaded PDF any more, and report_analysis stays the first
\* successful analysis whatever file is in the uploader.
C21_FirstReportKept ==
    [][report_processed =>
          /\ report_processed'
          /\ report_analysis' = report_analysis
          /\ (pc = "upload" => analysis_results' = analysis_results)]_vars

\* The upload section has just run with the report processed and another PDF in the
\* uploader, one whose analysis succeeds and differs from the analysis stored.
C21_Witness ==
    /\ pc = "profiles"
    /\ report_processed
    /\ uploaded_file # None
    /\ "error" \notin DOMAIN analyze_report(The(uploaded_file))
    /\ Some(analyze_report(The(uploaded_file))) # report_analysis
    /\ analysis_results = None

---------------------------------------------------------------------------
(* grv_camera.py: GRVCamera                                                *)

\* A GRV-gram is given by what process_grv_image measures on it (lines 386-406):
\* area in pixels, mean intensity 0..255, symmetry in percent, number of contours.
Grams == {[area |-> 25000, intensity |-> 51, symmetry |-> 90, contour_count |-> 1]}
\* An uploaded file holds a GRV-gram or cannot be decoded (cv2.imdecode returns None).
GramFiles == {None} \cup {Some(g) : g \in Grams}

\* process_grv_image (lines 369-426) on a decoded image: the measures and the thresholded
\* image, which stands here as 1.
process_grv_image(image) ==
    [k \in {"area", "intensity", "symmetry", "contour_count", "processed_image"} |->
        CASE k = "area" -> image.area
          [] k = "intensity" -> image.intensity
          [] k = "symmetry" -> image.symmetry
          [] k = "contour_count" -> image.contour_count
          [] k = "processed_image" -> 1]

\* calculate_balance_index (lines 530-556) on a dict of rationals
calculate_balance_index(values) ==
    LET n == Cardinality(DOMAIN values)
        avg == RDiv(RSum(values, DOMAIN values), RInt(n))
        deviations == [c \in DOMAIN values |-> RAbs(RSub(values[c], avg))]
        avg_deviation == RDiv(RSum(deviations, DOMAIN values), RInt(n))
        max_deviation == RDiv(RMul(avg, RInt(n - 1)), RInt(n))
    IN  IF RLt(RInt(0), max_deviation)
        THEN RMul(RInt(100), RSub(RInt(1), RDiv(avg_deviation, max_deviation)))
        ELSE RInt(100)

\* get_energy_details (lines 558-596): the state of each chakra
get_energy_details(values) ==
    [c \in DOMAIN values |->
        [value |-> values[c],
         state |-> IF RLt(values[c], RInt(30)) THEN "deficient"
                   ELSE IF RLt(values[c], RInt(70)) THEN "balanced"
                   ELSE "excessive"]]

\* finger_to_chakra (lines 478-490): weights in tenths
finger_to_chakra(f) ==
    CASE f[2] = "THUMB" -> [Root |-> 3, Sacral |-> 1]
      [] f[2] = "INDEX" -> [Throat |-> 3, Third_Eye |-> 1]
      [] f[2] = "MIDDLE" -> [Solar_Plexus |-> 3, Heart |-> 1]
      [] f[2] = "RING" -> [Heart |-> 3, Throat |-> 1]
      [] f[2] = "PINKY" -> [Crown |-> 3, Third_Eye |-> 1]
FieldOf(c) ==
    CASE c = "Third Eye" -> "Third_Eye" [] c = "Solar Plexus" -> "Solar_Plexus" [] OTHER -> c
FingerWeight(f, c) ==
    IF FieldOf(c) \in DOMAIN finger_to_chakra(f) THEN finger_to_chakra(f)[FieldOf(c)] ELSE 0

\* combined_factor of one finger's data (lines 499-507)
combined_factor(data) ==
    LET area_norm == RMin(RDiv(RInt(data["area"]), RInt(50000)), RInt(1))
        intensity_norm == RDiv(RInt(data["intensity"]), RInt(255))
    IN  RAdd(RMul(area_norm, Rat(7, 10)), RMul(intensity_norm, Rat(3, 10)))

\* calculate_energy_model (lines 457-528)
calculate_energy_model(pd) ==
    LET Contribution(c) ==
            [f \in Fingers |->
                IF "area" \in DOMAIN pd[f] /\ "intensity" \in DOMAIN pd[f]
                THEN RMul(combined_factor(pd[f]), Rat(FingerWeight(f, c), 10))
                ELSE RInt(0)]
        values == [c \in Chakras |->
                      RMul(RMin(RSum(Contribution(c), Fingers), RInt(1)), RInt(100))]
    IN  [chakra_values |-> values,
         overall_energy |-> RDiv(RSum(values, Chakras), RInt(7)),
         balance_index |-> calculate_balance_index(values),
         energy_details |-> get_energy_details(values)]

\* process_all_fingers (lines 428-455): the dict returned and processed_data afterwards
MissingImages == [error |-> "missing_images"]
ImagesMissing(fi) == \E f \in Fingers : fi[f] = None
process_all_fingers(fi, pd) ==
    IF ImagesMissing(fi)
    THEN [returned |-> MissingImages, processed_data |-> pd]
    ELSE LET processed == [f \in Fingers |-> process_grv_image(The(fi[f]))]
         IN  [returned |-> calculate_energy_model(processed), processed_data |-> processed]

\* save_session (lines 660-707): the contents of the JSON file
Serializable(data) == [k \in DOMAIN data \ {"processed_image"} |-> data[k]]
SessionData(pd) ==
    LET model == calculate_energy_model(pd)
    IN  [processed_data_serializable |-> [f \in Fingers |-> Serializable(pd[f])],
         chakra_values |-> model.chakra_values,
         balance_index |-> model.balance_index]

\* load_session (lines 709-755): finger_images are given and come back as they are
load_session(fi, data) ==
    [finger_images |-> fi,
     processed_data |-> [f \in Fingers |-> data.processed_data_serializable[f]],
     chakra_values_from_grv |-> Some(data.chakra_values)]

vars_not_grv == <<vars_an, vars_organ, vars_image, vars_ui, vars_balance, vars_photo, vars_load>>
vars_session == <<finger_images, processed_data, session_file, images_at_save,
                  chakra_values_from_grv, energy_model>>

\* display_grv_interface, lines 887-888: a later session starts with a new GRVCamera; the
\* session file is on the disk of the user
NewSession ==
    /\ finger_images' = NoFingerImages
    /\ processed_data' = NoProcessedData
    /\ chakra_values_from_grv' = None
    /\ energy_model' = None
    /\ connected' = FALSE
    /\ camera_id' = None
    /\ camera' = None
    /\ emulation_mode' = FALSE
    /\ camera_call' = "none"
    /\ UNCHANGED <<session_file, images_at_save, vars_not_grv>>

\* process_uploaded_grv_image (lines 758-860) for the selected hand and finger
UploadGram ==
    /\ \E f \in Fingers, file \in GramFiles :
        IF file = None
        THEN UNCHANGED <<finger_images, processed_data>>
        ELSE /\ finger_images' = [finger_images EXCEPT ![f] = Some(The(file))]
             /\ processed_data' = [processed_data EXCEPT ![f] = process_grv_image(The(file))]
    /\ UNCHANGED <<session_file, images_at_save, chakra_values_from_grv, energy_model,
                   vars_camera, vars_not_grv>>

\* the "Clear all" button (lines 896-906)
ClearAll ==
    /\ finger_images' = NoFingerImages
    /\ processed_data' = NoProcessedData
    /\ UNCHANGED <<session_file, images_at_save, chakra_values_from_grv, energy_model,
                   vars_camera, vars_not_grv>>

\* the "Analyze" button (lines 971-995)
Analyze ==
    /\ IF ImagesMissing(finger_images)
       THEN UNCHANGED <<processed_data, energy_model, chakra_values_from_grv>>
       ELSE LET r == process_all_fingers(finger_images, processed_data)
            IN  /\ processed_data' = r.processed_data
                /\ energy_model' = Some(r.returned)
                /\ chakra_values_from_grv' = Some(r.returned.chakra_values)
    /\ UNCHANGED <<finger_images, session_file, images_at_save, vars_camera, vars_not_grv>>

\* the "Save session" button (lines 1132-1134)
SaveSession ==
    /\ session_file' = Some(SessionData(processed_data))
    /\ images_at_save' = {f \in Fingers : finger_images[f] # None}
    /\ UNCHANGED <<finger_images, processed_data, chakra_values_from_grv, energy_model,
                   vars_camera, vars_not_grv>>

\* the session uploader (lines 1152-1176) given the file saved before
LoadSession ==
    /\ session_file # None
    /\ LET r == load_session(finger_images, The(session_file))
       IN  /\ finger_images' = r.finger_images
           /\ processed_data' = r.processed_data
           /\ chakra_values_from_grv' = r.chakra_values_from_grv
    /\ UNCHANGED <<session_file, images_at_save, energy_model, vars_camera, vars_not_grv>>

InitGRV ==
    /\ IdleAn
    /\ IdleOrgan
    /\ IdleImage
    /\ IdleUI
    /\ IdleRest

NextGRV == NewSession \/ UploadGram \/ ClearAll \/ Analyze \/ SaveSession \/ LoadSession

SpecGRV == InitGRV /\ [][NextGRV]_vars

\* C11: loading a saved session file brings back the GRV-grams: after load_session of the
\* file written by save_session, every finger that had an image when the file was written
\* has an image again, and when all of them had one process_all_fingers does not answer
\* 'missing_images'.
C11_LoadRestoresImages ==
    [][LoadSession =>
          /\ \A f \in images_at_save : finger_images'[f] # None
          /\ images_at_save = Fingers =>
                process_all_fingers(finger_images', processed_data').returned
                    # MissingImages]_vars

---------------------------------------------------------------------------
(* calculate_balance_index as a function of its argument                   *)

BalanceLevels == {0, 50, 100}

CalculateBalanceIndex ==
    /\ balance_index = None
    /\ balance_index' = Some(calculate_balance_index([c \in Chakras |-> RInt(chakra_values[c])]))
    /\ UNCHANGED <<chakra_values, vars_an, vars_organ, vars_image, vars_ui, vars_grv, vars_photo,
                   vars_load>>

InitBalance ==
    /\ IdleAn
    /\ IdleOrgan
    /\ IdleImage
    /\ IdleUI
    /\ IdleGRV
    /\ IdlePhoto
    /\ IdleLoad
    /\ chakra_values \in [Chakras -> BalanceLevels]
    /\ balance_index = None

NextBalance == CalculateBalanceIndex

SpecBalance == InitBalance /\ [][NextBalance]_vars

\* C12: for seven chakra values within [0, 100] the balance index returned lies within
\* [0, 100].
C12_BalanceIndexInRange ==
    balance_index # None =>
        RLe(RInt(0), The(balance_index)) /\ RLe(The(balance_index), RInt(100))

---------------------------------------------------------------------------
(* GRVCamera: the connection to a camera                                   *)

\* the caller chooses a camera: -1 is the emulation, 0 a device
CameraIds == {-1, 0}
\* the image capture_finger draws in emulation mode (lines 279-333), by its measures
EmulatedGram == [area |-> 20000, intensity |-> 30, symmetry |-> 95, contour_count |-> 3]

vars_not_camera == <<vars_an, vars_organ, vars_image, vars_ui, vars_balance, vars_photo,
                     vars_load,
                     processed_data,
                     session_file, images_at_save, chakra_values_from_grv, energy_model>>

SelectCamera ==
    /\ \E id \in CameraIds : camera_id' = Some(id)
    /\ camera_call' = "select"
    /\ UNCHANGED <<connected, camera, emulation_mode, finger_images, vars_not_camera>>

\* connect (lines 205-253); available is the number of cameras found, opens whether the
\* device opens
connect(available, opens) ==
    IF connected \/ (camera_id = None /\ available # 1)
    THEN UNCHANGED <<connected, camera_id, camera, emulation_mode>>
    ELSE LET id == IF camera_id = None THEN 0 ELSE The(camera_id)
         IN  /\ camera_id' = Some(id)
             /\ IF id = -1
                THEN /\ connected' = TRUE
                     /\ emulation_mode' = TRUE
                     /\ UNCHANGED camera
                ELSE /\ camera' = Some([opened |-> opens])
                     /\ IF opens
                        THEN connected' = TRUE /\ emulation_mode' = FALSE
                        ELSE UNCHANGED <<connected, emulation_mode>>
Connect ==
    /\ \E available \in 0..2, opens \in BOOLEAN : connect(available, opens)
    /\ camera_call' = "connect"
    /\ UNCHANGED <<finger_images, vars_not_camera>>

\* disconnect (lines 255-261)
disconnect ==
    IF connected /\ camera # None
    THEN /\ camera' = None
         /\ connected' = FALSE
         /\ UNCHANGED <<camera_id, emulation_mode>>
    ELSE UNCHANGED <<connected, camera_id, camera, emulation_mode>>
Disconnect ==
    /\ disconnect
    /\ camera_call' = "disconnect"
    /\ UNCHANGED <<finger_images, vars_not_camera>>

\* capture_finger (lines 263-367); reads whether camera.read() gives a frame
capture_finger(f, reads) ==
    IF ~ connected THEN UNCHANGED finger_images
    ELSE IF emulation_mode
    THEN finger_images' = [finger_images EXCEPT ![f] = Some(EmulatedGram)]
    ELSE IF camera = None \/ ~ reads THEN UNCHANGED finger_images
    ELSE \E frame \in Grams : finger_images' = [finger_images EXCEPT ![f] = Some(frame)]
CaptureFinger ==
    /\ \E f \in Fingers, reads \in BOOLEAN : capture_finger(f, reads)
    /\ camera_call' = "capture_finger"
    /\ UNCHANGED <<connected, camera_id, camera, emulation_mode, vars_not_camera>>

InitCamera ==
    /\ IdleAn
    /\ IdleOrgan
    /\ IdleImage
    /\ IdleUI
    /\ IdleRest

NextCamera == SelectCamera \/ Connect \/ Disconnect \/ CaptureFinger

SpecCamera == InitCamera /\ [][NextCamera]_vars

\* C13: when disconnect() has returned, connected is False, whether the connection was to
\* a device or to the emulation (camera_id = -1).
C13_DisconnectedAfterDisconnect == camera_call = "disconnect" => connected = FALSE

---------------------------------------------------------------------------
(* aura_photo.py, capture_aura_photo, called by main.py and pages/grv_page.py *)

\* The session state capture_aura_photo works on.
PhotoState ==
    [saved_energy_values |-> saved_energy_values,
     camera_active |-> camera_active,
     photo_taken |-> photo_taken,
     result_image |-> result_image,
     camera_live |-> camera_live,
     activation_values |-> activation_values]

\* the snapshots the camera_input gives
Snapshots == {"snapshot"}

\* the start button clicked (lines 265-269)
StartCamera(st, values) ==
    [st EXCEPT !.saved_energy_values = Some(values),
               !.camera_active = TRUE,
               !.activation_values = Some(values)]

\* the capture button clicked with a snapshot that is processed (lines 272-302): the
\* composite is given by the snapshot and the energy values create_aura_only is called
\* with; pg is the page that runs
TakePhotoCameraOn(st, pg) ==
    [st EXCEPT !.result_image = Some([photo |-> The(st.camera_live),
                                      aura_values |-> The(st.saved_energy_values),
                                      page |-> pg]),
               !.photo_taken = TRUE]
TakePhoto(st, pg) ==
    [st EXCEPT !.result_image = Some([photo |-> The(st.camera_live),
                                      aura_values |-> The(st.saved_energy_values),
                                      page |-> pg]),
               !.photo_taken = TRUE,
               !.camera_active = FALSE]

\* the retry button clicked (lines 315-322), before st.rerun()
Retry(st, values) ==
    [st EXCEPT !.photo_taken = FALSE,
               !.camera_active = TRUE,
               !.result_image = None,
               !.activation_values = Some(values)]

\* the button rendered in a pass (lines 262, 270, 311)
ButtonOf(st) ==
    IF ~ st.camera_active /\ ~ st.photo_taken THEN "start_camera"
    ELSE IF st.camera_active /\ ~ st.photo_taken THEN "take_photo"
    ELSE "new_photo"

\* One call of capture_aura_photo (lines 199-380): values is the energy_values argument,
\* clicked the button the user clicked ("none" for no button of this function), raises
\* whether the processing of the snapshot raises.  The result holds the session state, the
\* button rendered, and whether st.rerun() ended the pass.
capture_aura_photo(st, values, clicked, raises, pg) ==
    LET st0 == [st EXCEPT !.saved_energy_values = IF @ = None THEN Some(values) ELSE @]
        button == ButtonOf(st0)
        st1 == IF clicked # button THEN st0
               ELSE IF button = "start_camera" THEN StartCamera(st0, values)
               ELSE IF button = "take_photo"
               THEN IF st0.camera_live = None \/ raises THEN st0 ELSE TakePhoto(st0, pg)
               ELSE Retry(st0, values)
        rerun == clicked = button /\ button = "new_photo"
    IN  [state |-> IF rerun \/ st1.camera_active THEN st1
                   ELSE [st1 EXCEPT !.camera_live = None],
         rendered |-> button,
         rerun |-> rerun]

\* The energy values the page gives to capture_aura_photo, {} when it does not call it
\* (main.py, lines 531-553; pages/grv_page.py, lines 301-320).
PhotoValues(pg, mode, processed, analysis, grv) ==
    IF ~ mode THEN None
    ELSE IF pg = "main"
    THEN IF processed /\ HasChakraEnergy(analysis)
         THEN Some(ReportValues(The(analysis))) ELSE None
    ELSE grv

\* The photo section of a pass of the page's script, run again after st.rerun().
PhotoSection(st, values, clicked, raises, pg) ==
    IF values = None
    THEN [state |-> [st EXCEPT !.camera_live = None], rendered |-> "none"]
    ELSE LET first == capture_aura_photo(st, The(values), clicked, raises, pg)
             again == capture_aura_photo(first.state, The(values), "none", raises, pg)
         IN  IF first.rerun
             THEN [state |-> again.state, rendered |-> again.rendered]
             ELSE [state |-> first.state, rendered |-> first.rendered]

\* the session state and the buttons after the photo section
PhotoSectionDone(r) ==
    /\ saved_energy_values' = r.state.saved_energy_values
    /\ camera_active' = r.state.camera_active
    /\ photo_taken' = r.state.photo_taken
    /\ result_image' = r.state.result_image
    /\ camera_live' = r.state.camera_live
    /\ activation_values' = r.state.activation_values
    /\ rendered' = r.rendered

vars_not_photo == <<vars_an, vars_organ, vars_image, vars_balance, vars_load, vars_camera,
                    finger_images,
                    processed_data, session_file, images_at_save, energy_model,
                    energy_values, apply_results, chakra_data_source, energy_profile,
                    page, pc, passes, keyed_identity, uploaded_file, selected_profile,
                    apply_profile, sliders, apply_button, analysis_results, drawn>>

\* the values of chakra_values_from_grv a scan or a loaded session can give
GrvValues ==
    {calculate_energy_model(pd).chakra_values :
        pd \in [Fingers -> {EmptyDict} \cup {process_grv_image(g) : g \in Grams}]}

\* main.py: a report is uploaded and analysed (lines 276-290); the pass goes on to the
\* photo section
UploadReport ==
    /\ photo_page = "main"
    /\ ~ report_processed
    /\ \E pdf \in Pdfs :
          LET results == analyze_report(pdf)
          IN  /\ "error" \notin DOMAIN results
              /\ report_analysis' = Some(results)
              /\ report_processed' = TRUE
              /\ PhotoSectionDone(PhotoSection(PhotoState,
                     PhotoValues(photo_page, aura_photo_mode, TRUE, Some(results),
                                 chakra_values_from_grv),
                     "none", FALSE, photo_page))
    /\ UNCHANGED <<photo_page, aura_photo_mode, chakra_values_from_grv, vars_not_photo>>

\* pages/grv_page.py: display_grv_interface stores the values of a scan or of a loaded
\* session (grv_camera.py, lines 746, 1002); the pass goes on to the photo section
GrvScan ==
    /\ photo_page = "grv_page"
    /\ \E v \in GrvValues :
          /\ chakra_values_from_grv' = Some(v)
          /\ PhotoSectionDone(PhotoSection(PhotoState,
                 PhotoValues(photo_page, aura_photo_mode, report_processed, report_analysis,
                             Some(v)),
                 "none", FALSE, photo_page))
    /\ UNCHANGED <<photo_page, aura_photo_mode, report_processed, report_analysis,
                   vars_not_photo>>

\* the values the page shown gives in a pass
CurrentPhotoValues(mode) ==
    PhotoValues(photo_page, mode, report_processed, report_analysis, chakra_values_from_grv)

\* the "Take Aura Photo" button of the page (main.py, lines 520-525; grv_page.py, lines
\* 293-298): the mode is set and st.rerun() starts the script again
OpenPhotoMode ==
    /\ IF photo_page = "main"
       THEN report_processed /\ HasChakraEnergy(report_analysis)
       ELSE chakra_values_from_grv # None
    /\ aura_photo_mode' = TRUE
    /\ PhotoSectionDone(PhotoSection(PhotoState, CurrentPhotoValues(TRUE), "none", FALSE,
                                     photo_page))
    /\ UNCHANGED <<photo_page, report_processed, report_analysis, chakra_values_from_grv,
                   vars_not_photo>>

\* the "Return to main mode" button (main.py, lines 562-565; grv_page.py, lines 325-330):
\* the photo section runs, then the mode is reset and the script runs again without it
ReturnToMainMode ==
    /\ aura_photo_mode
    /\ aura_photo_mode' = FALSE
    /\ LET shown == PhotoSection(PhotoState, CurrentPhotoValues(TRUE), "none", FALSE,
                                 photo_page)
       IN  PhotoSectionDone(PhotoSection(shown.state, None, "none", FALSE, photo_page))
    /\ UNCHANGED <<photo_page, report_processed, report_analysis, chakra_values_from_grv,
                   vars_not_photo>>

\* the user opens the other page: the widgets of the page left lose their state
SwitchPage ==
    /\ \E pg \in {"main", "grv_page"} \ {photo_page} :
          /\ photo_page' = pg
          /\ PhotoSectionDone(PhotoSection([PhotoState EXCEPT !.camera_live = None],
                 PhotoValues(pg, aura_photo_mode, report_processed, report_analysis,
                             chakra_values_from_grv),
                 "none", FALSE, pg))
    /\ UNCHANGED <<aura_photo_mode, report_processed, report_analysis,
                   chakra_values_from_grv, vars_not_photo>>

\* the user clicks the button of capture_aura_photo rendered in the last pass
ClickPhotoButton ==
    /\ rendered # "none"
    /\ \E raises \in BOOLEAN :
          PhotoSectionDone(PhotoSection(PhotoState, CurrentPhotoValues(aura_photo_mode),
                                        rendered, raises, photo_page))
    /\ UNCHANGED <<photo_page, aura_photo_mode, report_processed, report_analysis,
                   chakra_values_from_grv, vars_not_photo>>

\* the user takes a snapshot in the camera_input rendered in the last pass (line 369)
TakeSnapshot ==
    /\ rendered # "none"
    /\ camera_active
    /\ \E snapshot \in Snapshots :
          PhotoSectionDone(PhotoSection([PhotoState EXCEPT !.camera_live = Some(snapshot)],
                                        CurrentPhotoValues(aura_photo_mode), "none", FALSE,
                                        photo_page))
    /\ UNCHANGED <<photo_page, aura_photo_mode, report_processed, report_analysis,
                   chakra_values_from_grv, vars_not_photo>>

InitPhoto ==
    /\ IdleAn
    /\ IdleOrgan
    /\ IdleImage
    /\ IdleUI
    /\ IdleRest

NextPhoto ==
    \/ UploadReport
    \/ GrvScan
    \/ OpenPhotoMode
    \/ ReturnToMainMode
    \/ SwitchPage
    \/ ClickPhotoButton
    \/ TakeSnapshot

SpecPhoto == InitPhoto /\ [][NextPhoto]_vars

\* C18: at the end of every pass, after any sequence of clicks on the buttons of
\* capture_aura_photo, camera_active and photo_taken are not both True, and photo_taken
\* implies that result_image is not None.
C18_CameraFlagsConsistent ==
    /\ ~ (camera_active /\ photo_taken)
    /\ photo_taken => result_image # None

\* A photo was taken: the flags have gone through start and capture.
C18_Witness ==
    /\ photo_taken
    /\ ~ camera_active
    /\ result_image # None
    /\ rendered = "take_photo"

\* C19: the aura of the composite is generated from the energy values given to
\* capture_aura_photo in the pass in which the camera was activated last, by the start
\* button or by the retry button.
C19_AuraFromActivationValues ==
    (photo_taken /\ result_image # None /\ activation_values # None) =>
        The(result_image).aura_values = The(activation_values)

\* C20: a photo taken on the GRV page has its aura generated from values of the GRV scan,
\* whatever was done on the main page before.
C20_GrvPhotoFromGrvValues ==
    (result_image # None /\ The(result_image).page = "grv_page") =>
        The(result_image).aura_values \in GrvValues

---------------------------------------------------------------------------
(* display_grv_interface: the passes of the script with the session uploader *)

\* The files a user puts in the session uploader: one that json.load rejects, and the
\* files save_session writes without and with processed GRV-grams.
SavedSessions ==
    {SessionData(NoProcessedData)} \cup
    {SessionData([f \in Fingers |-> process_grv_image(g)]) : g \in Grams}
SessionFiles == {[data |-> None]} \cup {[data |-> Some(d)] : d \in SavedSessions}

\* the value load_session returns: False when the try block raises (lines 719-755)
load_session_returns(file) == file.data # None

vars_not_load == <<vars_an, vars_organ, vars_image, vars_ui, vars_balance, vars_photo,
                   vars_camera, session_file, images_at_save, energy_model>>

\* the user puts a file in the session uploader (line 1152): the script runs
ChooseSessionFile ==
    /\ grv_pc = "idle"
    /\ \E file \in SessionFiles : uploaded_session' = Some(file)
    /\ grv_pc' = "top"
    /\ UNCHANGED <<session_loaded, session_message, load_reruns, finger_images,
                   processed_data, chakra_values_from_grv, vars_not_load>>

\* the user takes the file out of the session uploader
RemoveSessionFile ==
    /\ grv_pc = "idle"
    /\ uploaded_session # None
    /\ uploaded_session' = None
    /\ grv_pc' = "top"
    /\ UNCHANGED <<session_loaded, session_message, load_reruns, finger_images,
                   processed_data, chakra_values_from_grv, vars_not_load>>

\* any other interaction with the page: the script runs with the uploader as it is
GrvInteraction ==
    /\ grv_pc = "idle"
    /\ grv_pc' = "top"
    /\ UNCHANGED <<session_loaded, uploaded_session, session_message, load_reruns,
                   finger_images, processed_data, chakra_values_from_grv, vars_not_load>>

\* The top of display_grv_interface (lines 869-877): the flag is kept when it is True
\* and set to False otherwise; the elements of the pass before are gone.
GrvTop ==
    /\ grv_pc = "top"
    /\ grv_pc' = "body"
    /\ session_loaded' = IF session_loaded = Some(TRUE) THEN session_loaded ELSE Some(FALSE)
    /\ session_message' = "none"
    /\ UNCHANGED <<uploaded_session, load_reruns, finger_images, processed_data,
                   chakra_values_from_grv, vars_not_load>>

\* The GRV-gram uploader of the pass (lines 908-969): a gram for a finger, or no
\* file or one that cannot be decoded.
GrvBody ==
    /\ grv_pc = "body"
    /\ grv_pc' = "session"
    /\ \E f \in Fingers, file \in GramFiles :
          IF file = None
          THEN UNCHANGED <<finger_images, processed_data>>
          ELSE /\ finger_images' = [finger_images EXCEPT ![f] = Some(The(file))]
               /\ processed_data' = [processed_data EXCEPT ![f] = process_grv_image(The(file))]
    /\ UNCHANGED <<session_loaded, uploaded_session, session_message, load_reruns,
                   chakra_values_from_grv, vars_not_load>>

\* The session block (lines 1160-1196): the file of the uploader is loaded; after a
\* successful load the flag is set and the script rerun when the key is absent.
SessionBlock ==
    /\ grv_pc = "session"
    /\ IF uploaded_session = None
       THEN /\ grv_pc' = "idle"
            /\ UNCHANGED <<session_loaded, session_message, load_reruns, finger_images,
                           processed_data, chakra_values_from_grv>>
       ELSE IF load_session_returns(The(uploaded_session))
       THEN /\ LET r == load_session(finger_images, The(The(uploaded_session).data))
               IN  /\ finger_images' = r.finger_images
                   /\ processed_data' = r.processed_data
                   /\ chakra_values_from_grv' = r.chakra_values_from_grv
            /\ session_message' = "success"
            /\ IF session_loaded = None
               THEN /\ session_loaded' = Some(TRUE)
                    /\ load_reruns' = load_reruns + 1
                    /\ grv_pc' = "top"
               ELSE /\ grv_pc' = "idle"
                    /\ UNCHANGED <<session_loaded, load_reruns>>
       ELSE /\ session_message' = "error"
            /\ grv_pc' = "idle"
            /\ UNCHANGED <<session_loaded, load_reruns, finger_images, processed_data,
                           chakra_values_from_grv>>
    /\ UNCHANGED <<uploaded_session, vars_not_load>>

\* A new browser session on the GRV page: no key of the session state exists and the
\* first pass is about to run.
InitLoad ==
    /\ IdleAn
    /\ IdleOrgan
    /\ IdleImage
    /\ IdleUI
    /\ IdleGRV
    /\ IdleBalance
    /\ IdlePhoto
    /\ session_loaded = None
    /\ uploaded_session = None
    /\ grv_pc = "top"
    /\ session_message = "none"
    /\ load_reruns = 0

NextLoad ==
    \/ ChooseSessionFile
    \/ RemoveSessionFile
    \/ GrvInteraction
    \/ GrvTop
    \/ GrvBody
    \/ SessionBlock

SpecLoad == InitLoad /\ [][NextLoad]_vars

\* C22: when a pass of display_grv_interface has ended with load_session successful for
\* the file in the session uploader, session_loaded is True and exactly one rerun has
\* been triggered by the session block; this stays so in the later passes with the file
\* still in the uploader.
C22_LoadedFlagAndOneRerun ==
    (grv_pc = "idle" /\ uploaded_session # None /\ session_message = "success") =>
        /\ session_loaded = Some(TRUE)
        /\ load_reruns = 1

=============================================================================
